---- MODULE Spec2Model ----
(***************************************************************************)
(* Ibuild: package database (modules/package.py), snapshot / rollback      *)
(* (modules/rollback.py), the build's package stage (modules/build.py),    *)
(* the upgrade path (modules/upgrade.py) and the dependency resolver       *)
(* (modules/dependency.py).                                                *)
(*                                                                         *)
(* The specifications share the variables:                                 *)
(*   Spec         - the package database and the filesystem of the         *)
(*                  install roots under install, remove and upgrade;       *)
(*   SpecRollback - one package under install, remove, upgrade, snapshot   *)
(*                  and rollback, with the rollback log;                   *)
(*   SpecResolve  - the resolver run against every repository of a bounded *)
(*                  family, with the lockfile carried from run to run;     *)
(*   SpecRestore  - one package in the install root under complete         *)
(*                  installs, remove, build, snapshot and every call of    *)
(*                  rollback_last;                                         *)
(*   SpecLog      - processes that snapshot at the same time and write     *)
(*                  rollback.log;                                          *)
(*   SpecWriters  - processes that install at the same time;               *)
(*   SpecBuild    - build_package stage by stage, with the artifact cache  *)
(*                  and the sandbox;                                       *)
(*   SpecToolchain - the toolchain state file, the compiler and boot-image *)
(*                  links and a snapshot under the operations of           *)
(*                  modules/toolchain.py;                                  *)
(*   SpecRebuild  - rebuild_toolchain over the package database and the    *)
(*                  toolchain state;                                       *)
(*   SpecBoot     - the worker pool of modules/bootstrap.py building the   *)
(*                  lists of a bootstrap run, with the checkpoints;        *)
(*   SpecOrphan   - orphan_dry_run over the installed packages, for every  *)
(*                  form of a dependency entry;                            *)
(*   SpecFind     - find_candidates on its own, for every iteration order  *)
(*                  of the index;                                          *)
(*   SpecLock     - the resolver run for one root name under changing      *)
(*                  version specifiers;                                    *)
(*   SpecPkgRollback - rollback_pkg_to_version of one package;             *)
(*   SpecSnapUpgrade - snapshot_and_upgrade of one package;                *)
(*   SpecNames    - install of the artifacts of recipes whose names hold   *)
(*                  a hyphen.                                              *)
(***************************************************************************)
EXTENDS Integers, Sequences, FiniteSets, TLC

VARIABLES installed, manifest, fs, snaps, log, clock, last,
          repo, lockData, lastRun, workers, bld, tc, boot

pkgVars == <<installed, manifest, fs, snaps, log, clock>>
resVars == <<repo, lockData, lastRun>>
logVars == <<workers>>
extVars == <<bld, tc, boot>>
vars == <<installed, manifest, fs, snaps, log, clock, last,
          repo, lockData, lastRun, workers, bld, tc, boot>>

(***************************************************************************)
(* Generic helpers                                                         *)
(***************************************************************************)
Range(s) == {s[i] : i \in 1..Len(s)}

\* Python's Optional: None is the empty sequence, a value v is <<v>>.
None == <<>>
Some(v) == <<v>>

(***************************************************************************)
(* Bounds of the model                                                     *)
(***************************************************************************)
\* rollback.log holds at most MaxLog events; the wall clock (seconds, as
\* _now_ts() reads it) only counts the seconds in which an event was logged,
\* so it runs from 0 to MaxLog at most
MaxLog == 2

(***************************************************************************)
(* Part 1 - artifacts, package database, filesystem                        *)
(***************************************************************************)
\* names under which the package DB can hold <name>.installed.meta
DBNames == {"x", "y"}

\* install roots: "R" is config.get("install_root"), "T" is any other dest_dir
Roots == {"R", "T"}
InstallRoot == "R"

\* The artifact cache.  base is the file name <name>-<version>.tar.gz cut at
\* its hyphens (".tar.gz" left out); pkg and ver are the name and version the
\* recipe gave; members are the tar members in archive order.
ArtifactIds == {"x1", "x2", "y1"}
\* artifacts of the recipes x-y and y-x, whose names hold a hyphen
HyphenArtifactIds == {"xy1", "yx1"}
Dir(n) == [n |-> n, isfile |-> FALSE]
File(n) == [n |-> n, isfile |-> TRUE]
Pkg(a) ==
  CASE a = "x1" -> <<"x">>
    [] a = "x2" -> <<"x">>
    [] a = "y1" -> <<"y">>
    [] a = "xy1" -> <<"x", "y">>
    [] a = "yx1" -> <<"y", "x">>
Ver(a) ==
  CASE a = "x1" -> <<"1.0">>
    [] a = "x2" -> <<"2.0">>
    [] a = "y1" -> <<"1.0">>
    [] a = "xy1" -> <<"1.0">>
    [] a = "yx1" -> <<"1.0">>
Base(a) == Pkg(a) \o Ver(a)
Members(a) ==
  CASE a = "x1" -> <<Dir("d"), File("f1"), File("f2")>>
    [] a = "x2" -> <<Dir("d"), File("f2"), File("f3")>>
    [] a = "y1" -> <<File("f1")>>
    [] a = "xy1" -> <<File("f4")>>
    [] a = "yx1" -> <<File("f5")>>

\* the artifact build_package leaves in the cache for the recipe's current
\* version (the recipe of x is at 2.0, the recipe of y at 1.0)
BuiltArtifact(pkg) == IF pkg = "x" THEN "x2" ELSE "y1"

\* install_package: name = base_name.split("-")[0]
ParseName(base) == base[1]

\* install_package: version = base_name.replace(f"{name}-", "").replace(".tar.gz", "")
\* every occurrence of "<name>-" is deleted, i.e. every segment but the last
\* that equals the name (segments merely ending in the name are not modelled)
RECURSIVE DropSegments(_, _)
DropSegments(segs, name) ==
  IF Len(segs) <= 1 THEN segs
  ELSE IF Head(segs) = name THEN DropSegments(Tail(segs), name)
       ELSE <<Head(segs)>> \o DropSegments(Tail(segs), name)
ParseVersion(base) == DropSegments(base, ParseName(base))

\* _checksum_file: artifacts are immutable here, the digest is the identity
\* of the content
Sha(a) == <<"sha256", a>>

\* os.path.join(dest_dir, member.name)
Path(root, rel) == <<root, rel>>

\* _extract_with_manifest, members 1..k extracted: the regular files among
\* them, in archive order
RECURSIVE ExtractedFiles(_, _, _)
ExtractedFiles(mem, dest, k) ==
  IF k = 0 THEN <<>>
  ELSE ExtractedFiles(mem, dest, k - 1)
         \o (IF mem[k].isfile THEN <<Path(dest, mem[k].n)>> ELSE <<>>)

\* the state the package operations work on
DB(i, m, f) == [installed |-> i, manifest |-> m, fs |-> f]
CurDB == DB(installed, manifest, fs)

\* (mutant) remove_package that drops the record and the manifest but unlinks
\* no file
RemoveKeepsFiles(st, name, purge) ==
  IF st.installed[name] = None
  THEN [st |-> st, ok |-> FALSE]
  ELSE [st |-> DB([st.installed EXCEPT ![name] = None],
                  [st.manifest EXCEPT ![name] = None],
                  st.fs),
        ok |-> TRUE]

\* remove_package(name, purge) -> bool.  Directories are not tracked by fs:
\* a manifest never lists one, so purge removes nothing more.
RemovePackageFn(st, name, purge) ==
  IF st.installed[name] = None
  THEN [st |-> st, ok |-> FALSE]
  ELSE LET files == IF st.manifest[name] = None THEN {}
                    ELSE Range(st.manifest[name][1])
       IN [st |-> DB([st.installed EXCEPT ![name] = None],
                     [st.manifest EXCEPT ![name] = None],
                     st.fs \ files),
           ok |-> TRUE]

\* <name>.installed.meta is a JSON object; a key the writer leaves out reads
\* as NoKey (NoPathKey for the manifest path)
NoKey == "absent"
NoPathKey == <<>>

\* the record install_package writes to <name>.installed.meta
InstalledMeta(a, dest) ==
  [name |-> ParseName(Base(a)), version |-> ParseVersion(Base(a)),
   artifact |-> a, sha256 |-> Sha(a), install_root |-> dest,
   manifest |-> <<ParseName(Base(a)), "manifest.txt">>,
   built_at |-> NoKey, meta_source |-> NoKey]

\* the record build_package writes to the same file in its package stage:
\* name and version of the recipe, the artifact, its digest, the build time
\* and the recipe path, without install_root and manifest.  The build time
\* is not told apart from one build to the next.
BuiltMeta(pkg) ==
  [name |-> pkg, version |-> Ver(BuiltArtifact(pkg)),
   artifact |-> BuiltArtifact(pkg), sha256 |-> Sha(BuiltArtifact(pkg)),
   install_root |-> NoKey, manifest |-> NoPathKey,
   built_at |-> "built", meta_source |-> "recipe"]

\* build_package(pkg) with every stage succeeding: the artifact is packed
\* in the cache and <pkg>.installed.meta is written in pkg_db; the build and
\* install commands run in the sandbox
BuildPackageFn(st, pkg) ==
  DB([st.installed EXCEPT ![pkg] = Some(BuiltMeta(pkg))], st.manifest, st.fs)

\* (mutant) install_package without the check for an existing record
InstallOverExisting(st, a, dest, overwrite, upgrade, k) ==
  LET name == ParseName(Base(a))
      s1 == IF st.installed[name] # None /\ upgrade
            THEN RemovePackageFn(st, name, TRUE).st ELSE st
      files == ExtractedFiles(Members(a), dest, k)
  IN IF k < Len(Members(a))
     THEN [st |-> DB(s1.installed, s1.manifest, s1.fs \cup Range(files)),
           ok |-> FALSE, err |-> "extract"]
     ELSE [st |-> DB([s1.installed EXCEPT ![name] = Some(InstalledMeta(a, dest))],
                     [s1.manifest EXCEPT ![name] = Some(files)],
                     s1.fs \cup Range(files)),
           ok |-> TRUE, err |-> "none"]

\* install_package(artifact, dest_dir, overwrite, upgrade).  k is the number
\* of tar members extracted before tar.extract raises; k = Len(members) is a
\* complete extraction.  When the extraction raises, extracted_files of
\* install_package is still the empty list, so the handler unlinks nothing.
InstallPackageFn(st, a, dest, overwrite, upgrade, k) ==
  LET name == ParseName(Base(a))
      exists == st.installed[name] # None
  IN IF exists /\ ~overwrite /\ ~upgrade
     THEN [st |-> st, ok |-> FALSE, err |-> "FileExistsError"]
     ELSE LET s1 == IF exists /\ upgrade
                    THEN RemovePackageFn(st, name, TRUE).st ELSE st
              mem == Members(a)
              files == ExtractedFiles(mem, dest, k)
          IN IF k < Len(mem)
             THEN [st |-> DB(s1.installed, s1.manifest, s1.fs \cup Range(files)),
                   ok |-> FALSE, err |-> "extract"]
             ELSE [st |-> DB([s1.installed EXCEPT ![name] = Some(InstalledMeta(a, dest))],
                             [s1.manifest EXCEPT ![name] = Some(files)],
                             s1.fs \cup Range(files)),
                   ok |-> TRUE, err |-> "none"]

(***************************************************************************)
(* Part 2 - snapshots, rollback log, rollback, upgrade commit loop         *)
(***************************************************************************)
\* one line of rollback.log
LogEntry(ts, type, op, pkgs, commit) ==
  [ts |-> ts, type |-> type, op |-> op, packages |-> pkgs, commit |-> commit]

\* the package lists a caller snapshots
SnapshotLists == {<<"x">>}

EmptySnapDir ==
  [operation |-> "none", packages |-> <<>>,
   meta |-> [n \in DBNames |-> None], man |-> [n \in DBNames |-> None]]

\* snapshot_before_operation(pkgs, op_name): the directory snapshots/<ts>
\* after the call.  The directory is named by the second the clock shows:
\* makedirs(exist_ok=True) reuses a directory of the same second, the copies
\* overwrite the files of the same name and snapshot.json is rewritten.
SnapshotDirFn(sn, st, now, pkgs, op) ==
  LET old == IF sn[now] = None THEN EmptySnapDir ELSE sn[now][1]
      in(n) == n \in Range(pkgs)
  IN [operation |-> op, packages |-> pkgs,
      meta |-> [n \in DBNames |->
                  IF in(n) /\ st.installed[n] # None THEN st.installed[n]
                  ELSE old.meta[n]],
      man |-> [n \in DBNames |->
                  IF in(n) /\ st.manifest[n] # None THEN st.manifest[n]
                  ELSE old.man[n]]]

\* rollback_last: "for entry in reversed(logs): if type == snapshot"
LastSnapshotIndex(lg) ==
  LET S == {i \in 1..Len(lg) : lg[i].type = "snapshot"}
  IN IF S = {} THEN 0 ELSE CHOOSE i \in S : \A j \in S : j <= i

\* rollback_last: artifacts_needed, a dict in the order of the snapshot's
\* package list, holding the packages whose installed.meta the snapshot has
RECURSIVE ArtifactsNeeded(_, _)
ArtifactsNeeded(snap, pkgs) ==
  IF pkgs = <<>> THEN <<>>
  ELSE LET p == Head(pkgs)
           rest == ArtifactsNeeded(snap, Tail(pkgs))
       IN IF snap.meta[p] # None /\ p \notin {rest[i].pkg : i \in 1..Len(rest)}
          THEN <<[pkg |-> p, art |-> snap.meta[p][1].artifact]>> \o rest
          ELSE rest

\* _restore_installed_meta_from_snapshot(snapshot_id, pkg, dry_run=False),
\* for every package of the list
RestoreMetaFn(st, snap, pkgs) ==
  LET in(n) == n \in Range(pkgs)
  IN DB([n \in DBNames |->
           IF in(n) /\ snap.meta[n] # None THEN snap.meta[n] ELSE st.installed[n]],
        [n \in DBNames |->
           IF in(n) /\ snap.man[n] # None THEN snap.man[n] ELSE st.manifest[n]],
        st.fs)

\* where an extraction can stop: at the artifact's last member (everything
\* before it is on disk when tar.extract raises), or not at all
ExtractPoints(a) == {Len(Members(a)) - 1, Len(Members(a))}
\* the composite operations: the extraction of every artifact they install
\* fails (at that point) or none does
EffK(a, fail) == IF fail THEN Len(Members(a)) - 1 ELSE Len(Members(a))

\* rollback_last, commit loop: install_package(art, dest_dir=install_root,
\* overwrite=True, upgrade=True) for every needed artifact; an exception is
\* recorded in the report and the loop goes on
RECURSIVE CommitRollbackFn(_, _, _)
CommitRollbackFn(st, needed, k) ==
  IF needed = <<>> THEN st
  ELSE LET a == Head(needed).art
           r == InstallPackageFn(st, a, InstallRoot, TRUE, TRUE, EffK(a, k))
       IN CommitRollbackFn(r.st, Tail(needed), k)

\* what the validation of rollback_last meets: every needed artifact is in
\* the cache and installs in the sandbox, the artifacts are missing from the
\* cache, or install_with_fakeroot raises
Validations == {"ok", "missing_artifact", "sandbox_error"}

\* rollback_last: report["errors"] after the sandbox validation (one kind of
\* error for all the needed artifacts; nothing is validated when the snapshot
\* holds no installed.meta)
ValidationErrors(snap, validation) ==
  IF ArtifactsNeeded(snap, snap.packages) = <<>> THEN "ok" ELSE validation

\* (mutant) rollback_last whose restore of the metadata ignores dry_run
RollbackRestoresDry(st, snap, commit, k, validation) ==
  IF ~commit THEN RestoreMetaFn(st, snap, snap.packages)
  ELSE CommitRollbackFn(RestoreMetaFn(st, snap, snap.packages),
                        IF validation = "missing_artifact" THEN <<>>
                        ELSE ArtifactsNeeded(snap, snap.packages), k)

\* rollback_last(commit): the package DB and the filesystem afterwards, given
\* the snapshot the log names last.  The validation sandbox is created and
\* destroyed inside the call.  Without commit the restore of the metadata is
\* a dry run that only logs; with commit the metadata of every package of the
\* snapshot is restored and the commit loop installs the artifacts that are
\* present.
RollbackLastFn(st, snap, commit, k, validation) ==
  IF ~commit THEN st
  ELSE CommitRollbackFn(RestoreMetaFn(st, snap, snap.packages),
                        IF validation = "missing_artifact" THEN <<>>
                        ELSE ArtifactsNeeded(snap, snap.packages), k)

\* rollback_last: "if report['errors'] and not commit: return report", before
\* the restore loop and before the rollback event is logged
RollbackAborts(snap, commit, validation) ==
  ~commit /\ ValidationErrors(snap, validation) # "ok"

\* _commit_installs over the artifacts of the packages of order, in that
\* order: install_package(art, dest_dir=install_root, overwrite=True,
\* upgrade=True); on an exception the package is listed as failed,
\* remove_package(pkg, purge=True) is called for it and the loop goes on.
\* fails holds the packages whose extraction fails.  The artifacts were just
\* built and are present.
RECURSIVE CommitInstallsFn(_, _, _)
CommitInstallsFn(st, order, fails) ==
  IF order = <<>>
  THEN [st |-> st, succeeded |-> <<>>, failed |-> <<>>]
  ELSE LET pkg == Head(order)
           a == BuiltArtifact(pkg)
           r == InstallPackageFn(st, a, InstallRoot, TRUE, TRUE, EffK(a, pkg \in fails))
           st1 == IF r.ok THEN r.st ELSE RemovePackageFn(r.st, pkg, TRUE).st
           rest == CommitInstallsFn(st1, Tail(order), fails)
       IN [st |-> rest.st,
           succeeded |-> (IF r.ok THEN <<pkg>> ELSE <<>>) \o rest.succeeded,
           failed |-> (IF r.ok THEN <<>> ELSE <<pkg>>) \o rest.failed]

\* upgrade_package(pkg, commit, resolve_deps=False, dry_run): a dry run builds
\* nothing and installs the cached artifact in the validation sandbox only;
\* otherwise _build_packages_in_order runs build_package, the artifact is
\* installed in the sandbox and, with commit, _commit_installs applies it
UpgradePackageFn(st, pkg, commit, dry_run, fail) ==
  IF dry_run THEN st
  ELSE LET built == BuildPackageFn(st, pkg)
       IN IF commit
          THEN CommitInstallsFn(built, <<pkg>>, IF fail THEN {pkg} ELSE {}).st
          ELSE built

(***************************************************************************)
(* Dependency resolver (modules/dependency.py): data                       *)
(***************************************************************************)
\* Requirement strings are sequences of characters.  A one-character
\* sequence is read as the string of that character; package and virtual
\* names of the repositories below are one character long, versions are one
\* digit.
Str(cs) == IF Len(cs) = 1 THEN cs[1] ELSE cs

NameChars == {"A", "B", "C", "v", "w", "1", "2", "3", "-", "_", "."}

\* int() of a one-digit version string
VerNum(v) == CASE v = "1" -> 1 [] v = "2" -> 2 [] v = "3" -> 3 [] OTHER -> 0

\* PackageCandidate(name, version, provides, depends, conflicts, optional);
\* version is Optional[str]
Cand(name, version, provides, depends, conflicts, optional) ==
  [name |-> name, version |-> version, provides |-> provides,
   depends |-> depends, conflicts |-> conflicts, optional |-> optional]

\* PackageCandidate.id(): "name-version", or the bare name without a version
CandId(c) == IF c.version # None THEN <<c.name, c.version[1]>> ELSE <<c.name>>

InSeq(x, s) == \E i \in 1..Len(s) : s[i] = x

\* parse_specifier, one comma-free part
ParseSpecifier(spec) ==
  IF spec = <<>> THEN None
  ELSE IF Len(spec) >= 2 /\ SubSeq(spec, 1, 2) = <<"=", "=">>
         THEN Some([op |-> "==", v |-> Str(SubSeq(spec, 3, Len(spec)))])
  ELSE IF Len(spec) >= 2 /\ SubSeq(spec, 1, 2) = <<">", "=">>
         THEN Some([op |-> ">=", v |-> Str(SubSeq(spec, 3, Len(spec)))])
  ELSE IF Len(spec) >= 2 /\ SubSeq(spec, 1, 2) = <<"<", "=">>
         THEN Some([op |-> "<=", v |-> Str(SubSeq(spec, 3, Len(spec)))])
  ELSE IF spec[1] = ">"
         THEN Some([op |-> ">", v |-> Str(SubSeq(spec, 2, Len(spec)))])
  ELSE IF spec[1] = "<"
         THEN Some([op |-> "<", v |-> Str(SubSeq(spec, 2, Len(spec)))])
  ELSE Some([op |-> "==", v |-> Str(spec)])

\* spec_matches_version: no specifier matches everything, a candidate
\* without version matches no specifier
SpecMatchesVersion(spec, version) ==
  IF spec = None THEN TRUE
  ELSE IF version = None THEN FALSE
  ELSE LET op == spec[1].op
           vv == spec[1].v
           ver == version[1]
       IN CASE op = "==" -> ver = vv
            [] op = ">=" -> VerNum(ver) >= VerNum(vv)
            [] op = "<=" -> VerNum(ver) <= VerNum(vv)
            [] op = ">" -> VerNum(ver) > VerNum(vv)
            [] op = "<" -> VerNum(ver) < VerNum(vv)

\* PackageRequirement(name, raw, specifier)
Requirement(name, raw, specifier) ==
  [name |-> name, raw |-> raw, specifier |-> specifier]

\* does the string hold one of the comparators "==", ">=", "<=", ">", "<"
HasComparator(s) ==
  \E i \in 1..Len(s) :
     \/ s[i] \in {">", "<"}
     \/ i < Len(s) /\ s[i] = "=" /\ s[i + 1] = "="

\* length of the leading run of name characters
RECURSIVE NamePrefixLen(_, _)
NamePrefixLen(s, i) ==
  IF i > Len(s) \/ s[i] \notin NameChars THEN i - 1 ELSE NamePrefixLen(s, i + 1)

\* PackageRequirement.from_string (strings without blanks)
FromString(s) ==
  IF ~HasComparator(s)
  THEN Requirement(Str(s), s, None)
  ELSE LET n == NamePrefixLen(s, 1)
       IN Requirement(Str(SubSeq(s, 1, n)), s,
                      ParseSpecifier(SubSeq(s, n + 1, Len(s))))

\* PackageCandidate.satisfies
Satisfies(c, req) ==
  /\ req.name = c.name \/ InSeq(req.name, c.provides)
  /\ SpecMatchesVersion(req.specifier, c.version)

(***************************************************************************)
(* RepoIndex.find_candidates / find_best                                   *)
(***************************************************************************)
\* candidate names of the repository
PkgNames == {"A", "B", "C"}

RECURSIVE Perms(_)
Perms(S) ==
  IF S = {} THEN {<<>>}
  ELSE UNION {{<<x>> \o p : p \in Perms(S \ {x})} : x \in S}

\* iteration orders of a Python set of names: the order depends on the hash
\* seed of the process, every order is possible
HashOrders == Perms(PkgNames)

\* provides_index[name]: the names of the candidates that provide it, each
\* candidate providing its own name
ProvidesIndex(rp, name) ==
  {rp[i].name : i \in {j \in 1..Len(rp) : rp[j].name = name \/ InSeq(name, rp[j].provides)}}

RECURSIVE ConcatAll(_)
ConcatAll(ss) == IF ss = <<>> THEN <<>> ELSE Head(ss) \o ConcatAll(Tail(ss))

\* keep the first candidate of every id
RECURSIVE DedupById(_, _)
DedupById(cs, seen) ==
  IF cs = <<>> THEN <<>>
  ELSE IF CandId(Head(cs)) \in seen THEN DedupById(Tail(cs), seen)
  ELSE <<Head(cs)>> \o DedupById(Tail(cs), seen \cup {CandId(Head(cs))})

\* cand_score: 1000 for the requested name plus a million per major version
CandScore(c, req) ==
  (IF c.name = req.name THEN 1000 ELSE 0)
  + (IF c.version # None THEN VerNum(c.version[1]) * 1000000 ELSE 0)

\* list.sort(key=-score): stable, higher score first
RECURSIVE InsertByScore(_, _, _)
InsertByScore(sorted, c, req) ==
  IF sorted = <<>> THEN <<c>>
  ELSE IF CandScore(Head(sorted), req) >= CandScore(c, req)
       THEN <<Head(sorted)>> \o InsertByScore(Tail(sorted), c, req)
       ELSE <<c>> \o sorted

RECURSIVE SortByScore(_, _, _)
SortByScore(cs, acc, req) ==
  IF cs = <<>> THEN acc
  ELSE SortByScore(Tail(cs), InsertByScore(acc, Head(cs), req), req)

FindCandidates(rp, req, seed) ==
  LET provs == ProvidesIndex(rp, req.name) \cup {req.name}
      order == SelectSeq(seed, LAMBDA n : n \in provs)
      clist(pname) == SelectSeq(rp, LAMBDA c : c.name = pname /\ Satisfies(c, req))
      out == DedupById(ConcatAll([i \in 1..Len(order) |-> clist(order[i])]), {})
  IN SortByScore(out, <<>>, req)

FindBest(rp, req, seed) ==
  LET cands == FindCandidates(rp, req, seed)
  IN IF cands = <<>> THEN None ELSE Some(cands[1])

(***************************************************************************)
(* Python dicts keep insertion order: a dict is a sequence of entries      *)
(***************************************************************************)
Entry(k, v) == [k |-> k, v |-> v]
DictHas(d, k) == \E i \in 1..Len(d) : d[i].k = k
DictGet(d, k) ==
  IF DictHas(d, k) THEN Some(d[CHOOSE i \in 1..Len(d) : d[i].k = k].v) ELSE None
\* d[k] = v: an existing key keeps its position
DictPut(d, k, v) ==
  IF DictHas(d, k)
  THEN [i \in 1..Len(d) |-> IF d[i].k = k THEN Entry(k, v) ELSE d[i]]
  ELSE Append(d, Entry(k, v))
DictPop(d, k) == SelectSeq(d, LAMBDA e : e.k # k)

(***************************************************************************)
(* DependencyResolver._verify_selection                                    *)
(***************************************************************************)
\* "pr.name in p" on strings; names are one character long
SubstringOf(a, b) == a = b

ProvidedNames(c) == c.provides \o <<c.name>>

\* some chosen candidate, listed under a provided name that matches the
\* requirement name, satisfies the requirement
ChosenSatisfies(chosen, pr) ==
  \E i \in 1..Len(chosen) :
     /\ \E j \in 1..Len(ProvidedNames(chosen[i].v)) :
           LET p == ProvidedNames(chosen[i].v)[j]
           IN p = pr.name \/ SubstringOf(pr.name, p)
     /\ Satisfies(chosen[i].v, pr)

\* (mutant) a verification that reports no unsatisfied dependency
NoUnsatisfiedIssues(chosen, cand, allow_optional) == <<>>

\* the "unsatisfied:cand->dep" issues of one chosen candidate
UnsatisfiedIssues(chosen, cand, allow_optional) ==
  LET issue(d) ==
        LET pr == FromString(d)
        IN IF ChosenSatisfies(chosen, pr) THEN <<>>
           ELSE IF InSeq(pr.name, cand.optional) /\ allow_optional THEN <<>>
           ELSE << <<"unsatisfied", cand.name, pr.raw>> >>
  IN ConcatAll([i \in 1..Len(cand.depends) |-> issue(cand.depends[i])])

ConflictIssues(chosen, cand) ==
  LET hits(c) ==
        LET hit(e) == IF e.k = c \/ InSeq(c, e.v.provides)
                      THEN << <<"conflict", cand.name, e.k>> >> ELSE <<>>
        IN ConcatAll([i \in 1..Len(chosen) |-> hit(chosen[i])])
  IN ConcatAll([i \in 1..Len(cand.conflicts) |-> hits(cand.conflicts[i])])

\* the issues list; the selection is accepted when it is empty
VerifySelection(chosen, allow_optional) ==
  ConcatAll([i \in 1..Len(chosen) |->
               UnsatisfiedIssues(chosen, chosen[i].v, allow_optional)
               \o ConflictIssues(chosen, chosen[i].v)])

(***************************************************************************)
(* DependencyResolver._topological_order                                   *)
(***************************************************************************)
\* ids of the chosen candidates, each once, in order of first appearance
RECURSIVE NodeIds(_, _)
NodeIds(chosen, seen) ==
  IF chosen = <<>> THEN <<>>
  ELSE IF CandId(Head(chosen).v) \in seen THEN NodeIds(Tail(chosen), seen)
  ELSE <<CandId(Head(chosen).v)>>
       \o NodeIds(Tail(chosen), seen \cup {CandId(Head(chosen).v)})

\* the first chosen candidate that satisfies the dependency
ProviderId(chosen, pr) ==
  IF \E i \in 1..Len(chosen) : Satisfies(chosen[i].v, pr)
  THEN Some(CandId(chosen[CHOOSE i \in 1..Len(chosen) :
                             /\ Satisfies(chosen[i].v, pr)
                             /\ \A j \in 1..(i - 1) : ~Satisfies(chosen[j].v, pr)].v))
  ELSE None

\* deps_map[nid]: ids of the chosen providers of every depends entry
DepsOf(chosen, cand) ==
  UNION {LET p == ProviderId(chosen, FromString(cand.depends[i]))
         IN IF p = None THEN {} ELSE {p[1]} : i \in 1..Len(cand.depends)}

DepsMap(chosen) ==
  [nid \in Range(NodeIds(chosen, {})) |->
     DepsOf(chosen, chosen[CHOOSE i \in 1..Len(chosen) :
                             /\ CandId(chosen[i].v) = nid
                             /\ \A j \in (i + 1)..Len(chosen) : CandId(chosen[j].v) # nid].v)]

\* Kahn's loop: pop the head of the queue, drop its edges, queue the nodes
\* whose in-degree falls to zero
RECURSIVE Kahn(_, _, _, _)
Kahn(q, order, deps, nodes) ==
  IF q = <<>> THEN order
  ELSE LET n == Head(q)
           freed == SelectSeq(nodes, LAMBDA m : deps[m] = {n})
           deps2 == [m \in DOMAIN deps |-> deps[m] \ {n}]
       IN Kahn(Tail(q) \o freed, Append(order, n), deps2, nodes)

\* order of Python strings "name" and "name-version"
NameRank(n) ==
  CASE n = "A" -> 1 [] n = "B" -> 2 [] n = "C" -> 3 [] n = "v" -> 4 [] n = "w" -> 5
    [] OTHER -> 6
IdLess(a, b) ==
  \/ NameRank(a[1]) < NameRank(b[1])
  \/ /\ a[1] = b[1]
     /\ \/ Len(a) < Len(b)
        \/ Len(a) = 2 /\ Len(b) = 2 /\ VerNum(a[2]) < VerNum(b[2])

\* sorted() of a set of ids
RECURSIVE SortIds(_)
SortIds(S) ==
  IF S = {} THEN <<>>
  ELSE LET m == CHOOSE x \in S : \A y \in S \ {x} : IdLess(x, y)
       IN <<m>> \o SortIds(S \ {m})

TopologicalOrder(chosen) ==
  LET nodes == NodeIds(chosen, {})
      deps == DepsMap(chosen)
      q == SelectSeq(nodes, LAMBDA n : deps[n] = {})
      order == Kahn(q, <<>>, deps, nodes)
  IN IF Len(order) # Len(nodes)
     THEN order \o SortIds(Range(nodes) \ Range(order))
     ELSE order

(***************************************************************************)
(* Lockfile: _apply_lock / _save_lock                                      *)
(***************************************************************************)
\* sorted() of a list of names
RECURSIVE InsertName(_, _)
InsertName(sorted, n) ==
  IF sorted = <<>> THEN <<n>>
  ELSE IF NameRank(Head(sorted)) <= NameRank(n)
       THEN <<Head(sorted)>> \o InsertName(Tail(sorted), n)
       ELSE <<n>> \o sorted
RECURSIVE SortNames(_)
SortNames(ns) ==
  IF ns = <<>> THEN <<>> ELSE InsertName(SortNames(Tail(ns)), Head(ns))

\* the lock key: the sorted root names, without their specifiers
LockKey(reqs) == SortNames([i \in 1..Len(reqs) |-> reqs[i].name])

\* the requirement _apply_lock builds for a locked entry
LockRequirement(name, info) ==
  Requirement(name, <<>>,
              IF info.version # None
              THEN ParseSpecifier(<<"=", "=", info.version[1]>>)
              ELSE None)

RECURSIVE LockChosen(_, _, _, _)
LockChosen(entry, rp, seed, chosen) ==
  IF entry = <<>> THEN Some(chosen)
  ELSE LET cand == FindBest(rp, LockRequirement(Head(entry).k, Head(entry).v), seed)
       IN IF cand = None THEN None
          ELSE LockChosen(Tail(entry), rp, seed, DictPut(chosen, Head(entry).k, cand[1]))

\* None, or the chosen map rebuilt from the lock entry of the root set
ApplyLock(lock, rp, reqs, seed) ==
  LET entry == DictGet(lock, LockKey(reqs))
  IN IF entry = None \/ entry[1] = <<>> THEN None
     ELSE LockChosen(entry[1], rp, seed, <<>>)

SaveLock(lock, reqs, chosen) ==
  DictPut(lock, LockKey(reqs),
          [i \in 1..Len(chosen) |->
             Entry(chosen[i].k, [name |-> chosen[i].v.name,
                                 version |-> chosen[i].v.version])])

(***************************************************************************)
(* DependencyResolver.resolve                                              *)
(***************************************************************************)
\* max_steps of the resolver
MaxSteps == 8

StepLimitMessage == "Max resolution steps exceeded"

\* the mutable state of one search: the chosen dict, self._steps, the
\* failures list, and whether a selection was discarded for a conflict (the
\* quick check of the candidate loop or a conflict issue at a leaf)
Search(chosen, steps, failures, conflict) ==
  [chosen |-> chosen, steps |-> steps, failures |-> failures, conflict |-> conflict]

\* what backtrack() hands back: the result map or None, or the RuntimeError
Outcome(res, raised, s) == [res |-> res, raised |-> raised, s |-> s]

\* "already": the first chosen entry whose key is the requirement name or
\* whose candidate provides it
Already(chosen, req) ==
  IF \E i \in 1..Len(chosen) : chosen[i].k = req.name \/ InSeq(req.name, chosen[i].v.provides)
  THEN Some(chosen[CHOOSE i \in 1..Len(chosen) :
                     /\ chosen[i].k = req.name \/ InSeq(req.name, chosen[i].v.provides)
                     /\ \A j \in 1..(i - 1) :
                          ~(chosen[j].k = req.name \/ InSeq(req.name, chosen[j].v.provides))].v)
  ELSE None

\* quick conflict check of a candidate against the chosen ones: names only
QuickConflict(chosen, cand) ==
  \E i \in 1..Len(chosen) :
     InSeq(cand.name, chosen[i].v.conflicts) \/ InSeq(chosen[i].v.name, cand.conflicts)

\* the dependencies of a candidate that join the active list
TransReqs(chosen, cand, allow_optional) ==
  LET keep(d) ==
        LET pr == FromString(d)
        IN IF InSeq(pr.name, cand.optional) /\ ~allow_optional THEN <<>>
           ELSE IF \E i \in 1..Len(chosen) :
                      pr.name = chosen[i].k \/ InSeq(pr.name, chosen[i].v.provides)
                THEN <<>>
           ELSE <<pr>>
  IN ConcatAll([i \in 1..Len(cand.depends) |-> keep(cand.depends[i])])

HasConflictIssue(issues) == \E i \in 1..Len(issues) : issues[i][1] = "conflict"

\* (mutant) the step check fires two visits late
StepLimitLate(steps) == steps > MaxSteps + 2

\* self._steps > self.max_steps
StepLimitExceeded(steps) == steps > MaxSteps

RECURSIVE Backtrack(_, _, _, _)
RECURSIVE TryCands(_, _, _, _, _, _)

\* backtrack(index, active_requests); index counts from 0
Backtrack(ctx, index, active, s) ==
  LET s1 == [s EXCEPT !.steps = s.steps + 1]
  IN IF StepLimitExceeded(s1.steps) THEN Outcome(None, TRUE, s1)
     ELSE IF index >= Len(active)
     THEN LET issues == VerifySelection(s1.chosen, ctx.allow)
          IN IF issues = <<>> THEN Outcome(Some(s1.chosen), FALSE, s1)
             ELSE Outcome(None, FALSE,
                          [s1 EXCEPT !.conflict = s1.conflict \/ HasConflictIssue(issues)])
     ELSE LET req == active[index + 1]
              already == Already(s1.chosen, req)
          IN IF already # None
             THEN IF Satisfies(already[1], req)
                  THEN Backtrack(ctx, index + 1, active, s1)
                  ELSE Outcome(None, FALSE, s1)
             ELSE LET cands == FindCandidates(ctx.rp, req, ctx.seed)
                  IN IF cands = <<>>
                     THEN Outcome(None, FALSE,
                                  [s1 EXCEPT !.failures =
                                     Append(s1.failures,
                                            <<"no_candidate_for",
                                              IF req.raw # <<>> THEN req.raw ELSE req.name>>)])
                     ELSE TryCands(ctx, cands, 1, index, active, s1)

\* the candidate loop of backtrack()
TryCands(ctx, cands, i, index, active, s) ==
  IF i > Len(cands) THEN Outcome(None, FALSE, s)
  ELSE LET cand == cands[i]
       IN IF QuickConflict(s.chosen, cand)
          THEN TryCands(ctx, cands, i + 1, index, active, [s EXCEPT !.conflict = TRUE])
          ELSE LET prev == DictGet(s.chosen, cand.name)
                   chosen1 == DictPut(s.chosen, cand.name, cand)
                   trans == TransReqs(chosen1, cand, ctx.allow)
                   new_active == SubSeq(active, 1, index + 1) \o trans
                                 \o SubSeq(active, index + 2, Len(active))
                   r == Backtrack(ctx, index + 1, new_active, [s EXCEPT !.chosen = chosen1])
               IN IF r.raised \/ r.res # None THEN r
                  ELSE TryCands(ctx, cands, i + 1, index, active,
                                [r.s EXCEPT !.chosen =
                                   IF prev # None
                                   THEN DictPut(r.s.chosen, cand.name, prev[1])
                                   ELSE DictPop(r.s.chosen, cand.name)])

\* ResolveResult(ok, chosen, order, issues), with the path that produced it
\* (lockfile or search), the step counter and the conflict flag of the search
Result(path, ok, chosen, order, issues, steps, conflict) ==
  [path |-> path, ok |-> ok, chosen |-> chosen, order |-> order,
   issues |-> issues, steps |-> steps, conflict |-> conflict]

\* resolve(requests, allow_optional, prefer_locked) of a fresh resolver that
\* loaded the lockfile: the result and the lockfile afterwards
ResolveFn(lock, rp, roots, allow_optional, prefer_locked, seed) ==
  LET reqs == [i \in 1..Len(roots) |-> FromString(roots[i])]
      locked == IF prefer_locked THEN ApplyLock(lock, rp, reqs, seed) ELSE None
  IN IF locked # None /\ locked[1] # <<>> /\ VerifySelection(locked[1], TRUE) = <<>>
     THEN [result |-> Result("lock", TRUE, locked[1], TopologicalOrder(locked[1]),
                             <<>>, 0, FALSE),
           lock |-> lock]
     ELSE LET ctx == [rp |-> rp, allow |-> allow_optional, seed |-> seed]
              r == Backtrack(ctx, 0, reqs, Search(<<>>, 0, <<>>, FALSE))
          IN IF r.raised
             THEN [result |-> Result("search", FALSE, <<>>, <<>>, << <<StepLimitMessage>> >>,
                                     r.s.steps, r.s.conflict),
                   lock |-> lock]
             ELSE IF r.res = None
             THEN [result |-> Result("search", FALSE, <<>>, <<>>,
                                     IF r.s.failures # <<>> THEN r.s.failures
                                     ELSE << <<"unable_to_resolve">> >>,
                                     r.s.steps, r.s.conflict),
                   lock |-> lock]
             ELSE LET vissues == VerifySelection(r.res[1], allow_optional)
                  IN IF vissues # <<>>
                     THEN [result |-> Result("search", FALSE, <<>>, <<>>, vissues,
                                             r.s.steps, r.s.conflict),
                           lock |-> lock]
                     ELSE [result |-> Result("search", TRUE, r.res[1],
                                             TopologicalOrder(r.res[1]), <<>>,
                                             r.s.steps, r.s.conflict),
                           lock |-> SaveLock(lock, reqs, r.res[1])]

(***************************************************************************)
(* Repositories and root sets the resolver is run against                  *)
(***************************************************************************)
\* the candidates a repository is made of:
\*   A-1 depends on B>=2; A-2 depends on B, optionally; A (no version)
\*   provides v; A-3 conflicts with v; B-1 provides v; B-2 depends on A;
\*   B-3 depends on A>=2; C-1 provides w, depends on v and conflicts with B;
\*   C-2 provides v and depends on w
Pool ==
  << Cand("A", Some("1"), <<>>, << <<"B", ">", "=", "2">> >>, <<>>, <<>>),
     Cand("A", Some("2"), <<>>, << <<"B">> >>, <<>>, <<"B">>),
     Cand("A", None, <<"v">>, <<>>, <<>>, <<>>),
     Cand("A", Some("3"), <<>>, <<>>, <<"v">>, <<>>),
     Cand("B", Some("1"), <<"v">>, <<>>, <<>>, <<>>),
     Cand("B", Some("2"), <<>>, << <<"A">> >>, <<>>, <<>>),
     Cand("B", Some("3"), <<>>, << <<"A", ">", "=", "2">> >>, <<>>, <<>>),
     Cand("C", Some("1"), <<"w">>, << <<"v">> >>, <<"B">>, <<>>),
     Cand("C", Some("2"), <<"v">>, << <<"w">> >>, <<>>, <<>>) >>

\* a repository holds at most MaxRepo candidates
MaxRepo == 3

\* the candidates of the pool at the positions S, in pool order
RECURSIVE PickFrom(_, _)
PickFrom(i, S) ==
  IF i > Len(Pool) THEN <<>>
  ELSE (IF i \in S THEN <<Pool[i]>> ELSE <<>>) \o PickFrom(i + 1, S)

Repos == {PickFrom(1, S) : S \in {T \in SUBSET (1..Len(Pool)) : Cardinality(T) <= MaxRepo}}

\* root requirement lists
RootLists == { << <<"A">> >>, << <<"v">> >>, << <<"w">> >>, << <<"A">>, <<"B">> >> }

\* no resolver run yet
IdleRepo == <<>>
IdleRun ==
  [roots |-> <<>>, allow |-> TRUE, prefer |-> TRUE, path |-> "none", ok |-> FALSE,
   chosen |-> <<>>, order |-> <<>>, issues |-> <<>>, steps |-> 0, conflict |-> FALSE]

\* the run record: the arguments of resolve() and its result
Run(roots, allow_optional, prefer_locked, res) ==
  [roots |-> roots, allow |-> allow_optional, prefer |-> prefer_locked,
   path |-> res.path, ok |-> res.ok, chosen |-> res.chosen, order |-> res.order,
   issues |-> res.issues, steps |-> res.steps, conflict |-> res.conflict]

(***************************************************************************)
(* Actions                                                                 *)
(***************************************************************************)
\* History of Spec: the package operation that ran last, the artifact it
\* installed, whether it succeeded, the installed record it found, its
\* overwrite flag and the error install_package raised.
\* SpecRollback leaves it alone.
NoOp ==
  [op |-> "none", art |-> "none", ok |-> FALSE, found |-> None,
   overwrite |-> FALSE, err |-> "none"]
LastInstall(a, dest, overwrite, upgrade, k) ==
  [op |-> IF upgrade THEN "install_upgrade" ELSE "install",
   art |-> a,
   ok |-> InstallPackageFn(CurDB, a, dest, overwrite, upgrade, k).ok,
   found |-> installed[ParseName(Base(a))],
   overwrite |-> overwrite,
   err |-> InstallPackageFn(CurDB, a, dest, overwrite, upgrade, k).err]
LastRemove(name, purge) ==
  [op |-> "remove", art |-> "none",
   ok |-> RemovePackageFn(CurDB, name, purge).ok, found |-> installed[name],
   overwrite |-> FALSE, err |-> "none"]
LastUpgrade(pkg, commit, resolve_deps, dry_run, fail) ==
  [op |-> IF commit /\ ~dry_run THEN "upgrade_commit"
          ELSE IF dry_run THEN "upgrade_dry_run" ELSE "upgrade_no_commit",
   art |-> BuiltArtifact(pkg),
   ok |-> /\ ~resolve_deps
          /\ (commit /\ ~dry_run) =>
                InstallPackageFn(BuildPackageFn(CurDB, pkg), BuiltArtifact(pkg),
                                 InstallRoot, TRUE, TRUE,
                                 EffK(BuiltArtifact(pkg), fail)).ok,
   found |-> installed[pkg],
   overwrite |-> FALSE,
   err |-> IF resolve_deps THEN "UpgradeError" ELSE "none"]
LastRollback(commit, k, validation) ==
  LET i == LastSnapshotIndex(log)
      snap == snaps[log[i].ts][1]
  IN [op |-> IF commit THEN "rollback_commit" ELSE "rollback_no_commit",
      art |-> "none",
      ok |-> i # 0 /\ ValidationErrors(snap, validation) = "ok" /\ ~k,
      found |-> None,
      overwrite |-> FALSE,
      err |-> IF i = 0 THEN "RuntimeError" ELSE ValidationErrors(snap, validation)]
LastBuild(pkg) ==
  [op |-> "build_package", art |-> BuiltArtifact(pkg), ok |-> TRUE,
   found |-> installed[pkg], overwrite |-> FALSE, err |-> "none"]

\* the processes that run operations at the same time, and where each is:
\* in snapshot_before_operation idle, or past "ts = _now_ts()" and the
\* copies, before _append_log ("append"); in install_package past the check
\* of the installed record ("extract"), past the extraction ("manifest"), or
\* past the write of the manifest ("record")
Workers == {"w1", "w2"}
IdleWorker == [pc |-> "idle", ts |-> 0, pkgs |-> <<>>, art |-> "none", dest |-> "none"]
IdleWorkers == [w \in Workers |-> IdleWorker]

\* build_package not running: no sandbox, no artifact of the package in the
\* cache.  cache is the state of <cache>/packages/<name>-<version>.tar.gz
\* ("absent", "partial" or "complete"), cache0 its state when the call
\* began, trace the stage work done by the call, nonzero the stage of the
\* first command that exited non-zero.
IdleBuild ==
  [pc |-> "idle", keep |-> FALSE, sandbox |-> FALSE, cache |-> "absent",
   cache0 |-> "absent", trace |-> <<>>, nonzero |-> "none"]

\* toolchain.py: the profiles of the state file, and the links /usr/bin/gcc
\* (with g++ and cpp, switched together) and /boot/vmlinuz
ProfNames == {"default", "p"}
Links == {"gcc", "vmlinuz"}

\* _load_state() without a state file: the default profile is active, no
\* component is chosen (JSON null), there is no cross entry; no link
\* exists and no snapshot was taken.  A link is "none" (no such path),
\* "file" (a path that is no symlink) or the version its target belongs to.
\* Of a profile the keys gcc_active and kernel_active are kept.
IdleTc ==
  [active |-> "default",
   profiles |-> [n \in ProfNames |->
                   IF n = "default"
                   THEN Some([gcc_active |-> "null", kernel_active |-> "null"])
                   ELSE None],
   cross |-> {},
   link |-> [l \in Links |-> "none"],
   snap |-> None]

\* BootstrapManager with no run under way and an empty checkpoint
\* directory.  order is the list handed to build_packages_parallel, pend
\* the part of it no worker has taken yet, running the package each worker
\* thread builds, chk the names with a <name>.chk file, chk0 those that had
\* one when the run began.
IdleBoot ==
  [pc |-> "idle", order |-> <<>>, pend |-> <<>>,
   running |-> [w \in Workers |-> "none"], chk |-> {}, chk0 |-> {}]

ExtInit == bld = IdleBuild /\ tc = IdleTc /\ boot = IdleBoot

Init ==
  /\ installed = [n \in DBNames |-> None]
  /\ manifest = [n \in DBNames |-> None]
  /\ fs = {}
  /\ snaps = [t \in 0..MaxLog |-> None]
  /\ log = <<>>
  /\ clock = 0
  /\ last = NoOp
  /\ repo = IdleRepo
  /\ lockData = <<>>
  /\ lastRun = IdleRun
  /\ workers = IdleWorkers
  /\ ExtInit

SetDB(st) ==
  /\ installed' = st.installed
  /\ manifest' = st.manifest
  /\ fs' = st.fs

\* package.install_package
InstallPackage(a, dest, overwrite, upgrade, k) ==
  LET r == InstallPackageFn(CurDB, a, dest, overwrite, upgrade, k)
  IN /\ SetDB(r.st)
     /\ UNCHANGED <<snaps, log, clock>>
     /\ UNCHANGED <<resVars, logVars, extVars>>

\* package.remove_package
RemovePackage(name, purge) ==
  LET r == RemovePackageFn(CurDB, name, purge)
  IN /\ SetDB(r.st)
     /\ UNCHANGED <<snaps, log, clock>>
     /\ UNCHANGED <<resVars, logVars, extVars>>

\* rollback.snapshot_before_operation
SnapshotBeforeOperation(pkgs, op) ==
  /\ Len(log) < MaxLog
  /\ snaps' = [snaps EXCEPT ![clock] = Some(SnapshotDirFn(snaps, CurDB, clock, pkgs, op))]
  /\ log' = Append(log, LogEntry(clock, "snapshot", op, pkgs, FALSE))
  /\ UNCHANGED <<installed, manifest, fs, clock>>
  /\ UNCHANGED <<resVars, logVars, extVars>>

\* rollback.rollback_last; without a snapshot event in the log it raises
\* RuntimeError before touching anything
RollbackLast(commit, k, validation) ==
  LET i == LastSnapshotIndex(log)
  IN IF i = 0
     THEN /\ UNCHANGED <<installed, manifest, fs, snaps, log, clock>>
          /\ UNCHANGED <<resVars, logVars, extVars>>
     ELSE LET snap == snaps[log[i].ts][1]
          IN /\ Len(log) < MaxLog
             /\ SetDB(RollbackLastFn(CurDB, snap, commit, k, validation))
             /\ log' = IF RollbackAborts(snap, commit, validation) THEN log
                       ELSE Append(log, LogEntry(clock, "rollback", "none",
                                                 snap.packages, commit))
             /\ UNCHANGED <<snaps, clock>>
             /\ UNCHANGED <<resVars, logVars, extVars>>

\* the calls of rollback_last: an extraction failure is an input only of the
\* calls whose commit loop installs
RollbackCalls ==
  {c \in [commit : BOOLEAN, fail : BOOLEAN, validation : Validations] :
     c.fail => (c.commit /\ c.validation # "missing_artifact")}

\* upgrade.upgrade_package.  With resolve_deps=True the call of
\* dependency.resolve, which modules/dependency.py does not define, raises and
\* the operation ends in UpgradeError before any build.  Otherwise the
\* artifact of the recipe's version is built, installed in the validation
\* sandbox and, with commit, handed to _commit_installs (UpgradePackageFn).
UpgradePackage(pkg, commit, resolve_deps, dry_run, fail) ==
  /\ SetDB(IF resolve_deps THEN CurDB
           ELSE UpgradePackageFn(CurDB, pkg, commit, dry_run, fail))
  /\ UNCHANGED <<snaps, log, clock>>
  /\ UNCHANGED <<resVars, logVars, extVars>>

\* the calls of upgrade_package: an extraction failure is an input only of
\* the calls that reach the commit loop
UpgradeCalls ==
  {c \in [commit : BOOLEAN, resolve_deps : BOOLEAN, dry_run : BOOLEAN, fail : BOOLEAN] :
     c.fail => (c.commit /\ ~c.resolve_deps /\ ~c.dry_run)}

\* the package the build and upgrade calls of a behaviour name
BuildTargets == {"x"}

\* build.build_package, every stage succeeding
BuildPackage(pkg) ==
  /\ SetDB(BuildPackageFn(CurDB, pkg))
  /\ UNCHANGED <<snaps, log, clock>>
  /\ UNCHANGED <<resVars, logVars, extVars>>

\* a second passes on the wall clock (seconds without a logged event are
\* not counted: only the order and the equality of timestamps matter)
Tick ==
  /\ \E i \in 1..Len(log) : log[i].ts = clock
  /\ clock < MaxLog
  /\ clock' = clock + 1
  /\ UNCHANGED <<installed, manifest, fs, snaps, log>>
  /\ UNCHANGED <<resVars, logVars, extVars>>

\* Spec: the package database under install, remove and the upgrade commit
\* loop, for every artifact and both install roots
Next ==
  \/ \E a \in ArtifactIds, dest \in Roots, ov \in BOOLEAN, up \in BOOLEAN :
       \E k \in ExtractPoints(a) :
          InstallPackage(a, dest, ov, up, k) /\ last' = LastInstall(a, dest, ov, up, k)
  \/ \E n \in DBNames, purge \in BOOLEAN :
       RemovePackage(n, purge) /\ last' = LastRemove(n, purge)
  \/ \E pkg \in BuildTargets, c \in UpgradeCalls :
       UpgradePackage(pkg, c.commit, c.resolve_deps, c.dry_run, c.fail)
       /\ last' = LastUpgrade(pkg, c.commit, c.resolve_deps, c.dry_run, c.fail)
  \/ \E pkg \in BuildTargets : BuildPackage(pkg) /\ last' = LastBuild(pkg)

Spec == Init /\ [][Next]_vars

\* SpecRollback: package x under install, remove, upgrade, snapshot and
\* rollback (installs with overwrite=True: a refused install changes nothing)
RollbackArtifacts == {a \in ArtifactIds : ParseName(Base(a)) = "x"}
NextRollback ==
  \/ \E a \in RollbackArtifacts, dest \in Roots, up \in BOOLEAN :
       \E k \in ExtractPoints(a) :
          InstallPackage(a, dest, TRUE, up, k) /\ last' = NoOp
  \/ \E purge \in BOOLEAN : RemovePackage("x", purge) /\ last' = NoOp
  \/ \E pkg \in BuildTargets, c \in UpgradeCalls :
       UpgradePackage(pkg, c.commit, c.resolve_deps, c.dry_run, c.fail) /\ last' = NoOp
  \/ \E pkgs \in SnapshotLists : SnapshotBeforeOperation(pkgs, "op") /\ last' = NoOp
  \/ \E c \in RollbackCalls :
       RollbackLast(c.commit, c.fail, c.validation)
       /\ last' = LastRollback(c.commit, c.fail, c.validation)
  \/ Tick /\ last' = NoOp

SpecRollback == Init /\ [][NextRollback]_vars

\* SpecRestore: package x in the install root under complete installs,
\* remove, build, snapshot and every call of rollback_last
NextRestore ==
  \/ \E a \in RollbackArtifacts, up \in BOOLEAN :
       InstallPackage(a, InstallRoot, TRUE, up, EffK(a, FALSE)) /\ last' = NoOp
  \/ RemovePackage("x", FALSE) /\ last' = NoOp
  \/ \E pkg \in BuildTargets : BuildPackage(pkg) /\ last' = NoOp
  \/ \E pkgs \in SnapshotLists : SnapshotBeforeOperation(pkgs, "op") /\ last' = NoOp
  \/ \E c \in RollbackCalls :
       RollbackLast(c.commit, c.fail, c.validation)
       /\ last' = LastRollback(c.commit, c.fail, c.validation)
  \/ Tick /\ last' = NoOp

SpecRestore == Init /\ [][NextRestore]_vars

\* SpecResolve: a repository of the family, fixed for the behaviour, and
\* resolve() run again and again on a fresh resolver that loads the lockfile
\* the earlier runs wrote
InitResolve ==
  /\ installed = [n \in DBNames |-> None]
  /\ manifest = [n \in DBNames |-> None]
  /\ fs = {}
  /\ snaps = [t \in 0..MaxLog |-> None]
  /\ log = <<>>
  /\ clock = 0
  /\ last = NoOp
  /\ repo \in Repos
  /\ lockData = <<>>
  /\ lastRun = IdleRun
  /\ workers = IdleWorkers
  /\ ExtInit

\* DependencyResolver(repo).resolve(roots, allow_optional, prefer_locked)
Resolve(roots, allow_optional, prefer_locked, seed) ==
  LET r == ResolveFn(lockData, repo, roots, allow_optional, prefer_locked, seed)
  IN /\ lastRun' = Run(roots, allow_optional, prefer_locked, r.result)
     /\ lockData' = r.lock
     /\ UNCHANGED <<repo, last>>
     /\ UNCHANGED <<pkgVars, logVars, extVars>>

\* the lock key of a list of root strings
RootKey(roots) == LockKey([i \in 1..Len(roots) |-> FromString(roots[i])])

\* A lock entry is read and written only by the runs whose roots have its
\* key, so the runs of one behaviour all take roots of the same key.
NextResolve ==
  \E roots \in RootLists, allow \in BOOLEAN, prefer \in BOOLEAN, seed \in HashOrders :
     /\ lastRun.path = "none" \/ RootKey(roots) = RootKey(lastRun.roots)
     /\ Resolve(roots, allow, prefer, seed)

SpecResolve == InitResolve /\ [][NextResolve]_vars

\* snapshot_before_operation up to the write of snapshot.json: the process
\* reads the clock, creates snapshots/<ts> and copies the records and
\* manifests of the packages
SnapshotCopy(w, pkgs) ==
  /\ workers[w].pc = "idle"
  /\ Len(log) + Cardinality({v \in Workers : workers[v].pc = "append"}) < MaxLog
  /\ snaps' = [snaps EXCEPT ![clock] = Some(SnapshotDirFn(snaps, CurDB, clock, pkgs, "op"))]
  /\ workers' = [workers EXCEPT ![w] = [pc |-> "append", ts |-> clock, pkgs |-> pkgs,
                                         art |-> "none", dest |-> "none"]]
  /\ UNCHANGED <<installed, manifest, fs, log, clock, last>>
  /\ UNCHANGED <<resVars, extVars>>

\* snapshot_before_operation, the rest: _append_log opens rollback.log in
\* append mode and writes the line of the event, with the ts read before
SnapshotAppendLog(w) ==
  /\ workers[w].pc = "append"
  /\ log' = Append(log, LogEntry(workers[w].ts, "snapshot", "op", workers[w].pkgs, FALSE))
  /\ workers' = [workers EXCEPT ![w] = IdleWorker]
  /\ UNCHANGED <<installed, manifest, fs, snaps, clock, last>>
  /\ UNCHANGED <<resVars, extVars>>

\* a second passes on the wall clock while the processes run
TickLog ==
  /\ clock < MaxLog
  /\ \/ \E i \in 1..Len(log) : log[i].ts = clock
     \/ \E w \in Workers : workers[w].pc = "append" /\ workers[w].ts = clock
  /\ clock' = clock + 1
  /\ UNCHANGED <<installed, manifest, fs, snaps, log, last>>
  /\ UNCHANGED <<resVars, logVars, extVars>>

\* SpecLog: the package database under install and remove of x in the
\* install root, and two processes that snapshot at the same time
NextLog ==
  \/ \E a \in RollbackArtifacts, up \in BOOLEAN :
       InstallPackage(a, InstallRoot, TRUE, up, EffK(a, FALSE)) /\ UNCHANGED last
  \/ RemovePackage("x", FALSE) /\ UNCHANGED last
  \/ \E w \in Workers, pkgs \in SnapshotLists : SnapshotCopy(w, pkgs)
  \/ \E w \in Workers : SnapshotAppendLog(w)
  \/ TickLog

SpecLog == Init /\ [][NextLog]_vars

\* install_package(artifact, dest_dir) with overwrite=False, upgrade=False,
\* up to the check of <name>.installed.meta: FileExistsError when the record
\* exists, else the call goes on to the extraction
InstallCheck(w, a, dest) ==
  /\ workers[w].pc = "idle"
  /\ workers' = [workers EXCEPT ![w] =
                   IF installed[ParseName(Base(a))] # None THEN IdleWorker
                   ELSE [IdleWorker EXCEPT !.pc = "extract", !.art = a, !.dest = dest]]
  /\ last' = [NoOp EXCEPT !.op = "install", !.art = a,
                          !.found = installed[ParseName(Base(a))],
                          !.err = IF installed[ParseName(Base(a))] # None
                                  THEN "FileExistsError" ELSE "none"]
  /\ UNCHANGED <<installed, manifest, fs, snaps, log, clock>>
  /\ UNCHANGED <<resVars, extVars>>

\* install_package: _extract_with_manifest, complete
InstallExtract(w) ==
  /\ workers[w].pc = "extract"
  /\ fs' = fs \cup Range(ExtractedFiles(Members(workers[w].art), workers[w].dest,
                                         Len(Members(workers[w].art))))
  /\ workers' = [workers EXCEPT ![w].pc = "manifest"]
  /\ UNCHANGED <<installed, manifest, snaps, log, clock, last>>
  /\ UNCHANGED <<resVars, extVars>>

\* install_package: the write of <name>.manifest.txt
InstallWriteManifest(w) ==
  LET a == workers[w].art
  IN /\ workers[w].pc = "manifest"
     /\ manifest' = [manifest EXCEPT ![ParseName(Base(a))] =
                       Some(ExtractedFiles(Members(a), workers[w].dest, Len(Members(a))))]
     /\ workers' = [workers EXCEPT ![w].pc = "record"]
     /\ UNCHANGED <<installed, fs, snaps, log, clock, last>>
     /\ UNCHANGED <<resVars, extVars>>

\* install_package: the write of <name>.installed.meta, and the return
InstallWriteMeta(w) ==
  LET a == workers[w].art
  IN /\ workers[w].pc = "record"
     /\ installed' = [installed EXCEPT ![ParseName(Base(a))] =
                         Some(InstalledMeta(a, workers[w].dest))]
     /\ workers' = [workers EXCEPT ![w] = IdleWorker]
     /\ UNCHANGED <<manifest, fs, snaps, log, clock, last>>
     /\ UNCHANGED <<resVars, extVars>>

\* a process between the check of the record and the return of
\* install_package, for package n
Installing(w, n) ==
  /\ workers[w].pc \in {"extract", "manifest", "record"}
  /\ ParseName(Base(workers[w].art)) = n

\* SpecWriters: two processes that call install_package (plain) at the same
\* time, and remove_package between the calls
NextWriters ==
  \/ \E w \in Workers, a \in ArtifactIds : InstallCheck(w, a, InstallRoot)
  \/ \E w \in Workers : InstallExtract(w)
  \/ \E w \in Workers : InstallWriteManifest(w)
  \/ \E w \in Workers : InstallWriteMeta(w)
  \/ \E n \in DBNames :
       /\ \A w \in Workers : workers[w].pc = "idle"
       /\ RemovePackage(n, FALSE)
       /\ last' = LastRemove(n, FALSE)

SpecWriters == Init /\ [][NextWriters]_vars

(***************************************************************************)
(* build_package, stage by stage (build.py)                                *)
(***************************************************************************)
\* the default stages, in the order build_package runs them
BuildStages == <<"fetch", "extract", "patch", "build", "check", "install", "package">>

\* the hooks of the recipe, hooks["pre_<stage>"] and hooks["post_<stage>"]:
\* two steps before the build stage and one after it, none for the other
\* stages
RecipeHooks(when, stage) ==
  IF stage # "build" THEN <<>>
  ELSE IF when = "pre" THEN <<"h1", "h2">> ELSE <<"h3">>

\* the except and finally clauses: the sandbox is destroyed unless
\* keep_sandbox, BuildError is raised
BuildRaise(b) == [b EXCEPT !.pc = "failed", !.sandbox = b.keep]

\* build_package(pkg, keep_sandbox) up to the try: the recipe is loaded and
\* the sandbox created
BuildStart(keep_sandbox) ==
  /\ bld.pc \in {"idle", "done", "failed"}
  /\ bld' = [pc |-> "fetch", keep |-> keep_sandbox, sandbox |-> TRUE,
             cache |-> bld.cache, cache0 |-> bld.cache, trace |-> <<>>,
             nonzero |-> "none"]
  /\ UNCHANGED <<pkgVars, last, resVars, logVars, tc, boot>>

\* one of the stages before the package stage.  fetch, extract and patch
\* succeed or raise.  The build, check and install stages run the commands
\* of the recipe (one each) through sandbox.run_in_sandbox, which returns
\* the CompletedProcess of subprocess.run without looking at its return
\* code, or raises when the command cannot be started; the return value is
\* dropped.
BuildStep(outcome) ==
  /\ \E i \in 1..6 :
       /\ bld.pc = BuildStages[i]
       /\ outcome \in (IF i <= 3 THEN {"ok", "raise"} ELSE {"ok", "nonzero", "raise"})
       /\ bld' = IF outcome = "raise" THEN BuildRaise(bld)
                 ELSE [bld EXCEPT !.pc = BuildStages[i + 1],
                                  !.trace = Append(@, BuildStages[i]),
                                  !.nonzero = IF outcome = "nonzero" /\ @ = "none"
                                              THEN BuildStages[i] ELSE @]
  /\ UNCHANGED <<pkgVars, last, resVars, logVars, tc, boot>>

\* the package stage in its steps: the artifact of an earlier build is
\* removed; make_archive writes the new one in its place, or raises with
\* nothing or a part of it written; the checksum is taken and
\* <pkg>.installed.meta written, or the write raises; the finally clause
\* destroys the sandbox unless keep_sandbox
PackageStep(pkg, outcome) ==
  \/ /\ bld.pc = "package" /\ outcome = "ok"
     /\ bld' = [bld EXCEPT !.pc = "archive", !.cache = "absent"]
     /\ UNCHANGED <<pkgVars, last, resVars, logVars, tc, boot>>
  \/ /\ bld.pc = "archive" /\ outcome \in {"ok", "raise", "raise_partial"}
     /\ bld' = CASE outcome = "ok" ->
                      [bld EXCEPT !.pc = "meta", !.cache = "complete",
                                  !.trace = Append(@, "package")]
                 [] outcome = "raise" -> BuildRaise(bld)
                 [] OTHER -> BuildRaise([bld EXCEPT !.cache = "partial"])
     /\ UNCHANGED <<pkgVars, last, resVars, logVars, tc, boot>>
  \/ /\ bld.pc = "meta" /\ outcome \in {"ok", "raise"}
     /\ IF outcome = "ok"
        THEN /\ bld' = [bld EXCEPT !.pc = "done", !.sandbox = bld.keep]
             /\ SetDB(BuildPackageFn(CurDB, pkg))
        ELSE /\ bld' = BuildRaise(bld)
             /\ UNCHANGED <<installed, manifest, fs>>
     /\ UNCHANGED <<snaps, log, clock, last, resVars, logVars, tc, boot>>

BuildOutcomes == {"ok", "nonzero", "raise", "raise_partial"}

NextBuild ==
  \/ \E keep_sandbox \in BOOLEAN : BuildStart(keep_sandbox)
  \/ \E outcome \in BuildOutcomes : BuildStep(outcome)
  \/ \E outcome \in BuildOutcomes : PackageStep("x", outcome)

SpecBuild == Init /\ [][NextBuild]_vars

(***************************************************************************)
(* The toolchain manager (toolchain.py)                                    *)
(***************************************************************************)
TcVersions == {"1.0", "2.0"}

\* the content of the state file
TcState(t) == [active |-> t.active, profiles |-> t.profiles, cross |-> t.cross]

\* snapshot_state: the state and, of the links that are symlinks, the target
SnapshotOf(t) ==
  [state |-> TcState(t),
   extras |-> [l \in Links |->
                 IF t.link[l] \in {"none", "file"} THEN NoKey ELSE t.link[l]]]

\* rollback_snapshot of a snapshot that exists: the state is saved and every
\* link of the extras is set; a link the extras do not hold is left alone
RollbackSnapshotFn(t, s) ==
  [t EXCEPT !.active = s.state.active,
            !.profiles = s.state.profiles,
            !.cross = s.state.cross,
            !.link = [l \in Links |->
                        IF s.extras[l] # NoKey THEN s.extras[l] ELSE t.link[l]]]

\* profiles.setdefault(profile, {})[key] = version
SetProfileKey(profiles, profile, key, version) ==
  [profiles EXCEPT ![profile] =
     Some([(IF @ = None THEN [gcc_active |-> "null", kernel_active |-> "null"]
            ELSE @[1]) EXCEPT ![key] = version])]

\* register_versions(pkg_name, version): the key of the active profile the
\* package stands for is set (binutils and glibc go to keys not kept here)
RegisterVersionsFn(t, pkg_name, version) ==
  [t EXCEPT !.profiles =
     IF pkg_name = "gcc" THEN SetProfileKey(@, t.active, "gcc_active", version)
     ELSE IF pkg_name = "kernel"
          THEN SetProfileKey(@, t.active, "kernel_active", version)
     ELSE [@ EXCEPT ![t.active] =
             IF @ = None THEN Some([gcc_active |-> "null", kernel_active |-> "null"])
             ELSE @]]

\* what the last call of set_active or rebuild_toolchain was and whether it
\* succeeded
LastTc(op, ok, art, err) == [NoOp EXCEPT !.op = op, !.ok = ok, !.art = art, !.err = err]

TcStep(t, l) ==
  /\ tc' = t
  /\ last' = l
  /\ UNCHANGED <<pkgVars, resVars, logVars, bld, boot>>

\* set_active(pkg_type, version, profile).  present: the directory of the
\* compiler binaries, or the kernel image, exists; valid: the quick
\* validation passes after the switch.  The snapshot the call takes is kept
\* under a name of its own.
SetActive(pkg_type, version, profile, present, valid) ==
  LET prof == IF profile = None THEN tc.active ELSE profile[1]
      snap == SnapshotOf(tc)
      l == IF pkg_type = "gcc" THEN "gcc" ELSE "vmlinuz"
      key == IF pkg_type = "gcc" THEN "gcc_active" ELSE "kernel_active"
      sw == [tc EXCEPT !.link[l] = version]
      ok == present /\ (pkg_type = "gcc" => valid)
  IN TcStep(IF ~present THEN RollbackSnapshotFn(tc, snap)
            ELSE IF ~ok THEN RollbackSnapshotFn(sw, snap)
            ELSE [sw EXCEPT !.profiles = SetProfileKey(@, prof, key, version)],
            LastTc("set_active", ok, "none", "none"))

\* (mutant) use_profile that does not look whether the profile exists
UseProfileUnchecked(name, fail) ==
  LET p == IF tc.profiles[name] = None
           THEN [gcc_active |-> "null", kernel_active |-> "null"]
           ELSE tc.profiles[name][1]
      snap == SnapshotOf(tc)
      t1 == [tc EXCEPT !.active = name]
      t2 == IF p.gcc_active # "null" THEN [t1 EXCEPT !.link["gcc"] = p.gcc_active] ELSE t1
      t3 == IF p.kernel_active # "null"
            THEN [t2 EXCEPT !.link["vmlinuz"] = p.kernel_active] ELSE t2
  IN IF fail = "gcc" /\ p.gcc_active # "null"
     THEN TcStep(RollbackSnapshotFn(t1, snap), NoOp)
     ELSE IF fail = "kernel" /\ p.kernel_active # "null"
     THEN TcStep(RollbackSnapshotFn(t2, snap), NoOp)
     ELSE TcStep(t3, NoOp)

\* use_profile(name).  fail: the component whose switch raises (its binaries
\* or its image are missing), if the profile names that component
UseProfile(name, fail) ==
  IF tc.profiles[name] = None
  THEN TcStep(tc, NoOp)
  ELSE LET p == tc.profiles[name][1]
           snap == SnapshotOf(tc)
           t1 == [tc EXCEPT !.active = name]
           t2 == IF p.gcc_active # "null"
                 THEN [t1 EXCEPT !.link["gcc"] = p.gcc_active] ELSE t1
           t3 == IF p.kernel_active # "null"
                 THEN [t2 EXCEPT !.link["vmlinuz"] = p.kernel_active] ELSE t2
       IN IF fail = "gcc" /\ p.gcc_active # "null"
          THEN TcStep(RollbackSnapshotFn(t1, snap),
                      NoOp)
          ELSE IF fail = "kernel" /\ p.kernel_active # "null"
          THEN TcStep(RollbackSnapshotFn(t2, snap),
                      NoOp)
          ELSE TcStep(t3, NoOp)

\* create_profile(name, base_profile, gcc)
CreateProfile(name, base_profile, gcc) ==
  IF tc.profiles[name] # None
  THEN TcStep(tc, NoOp)
  ELSE LET base == IF base_profile # None /\ tc.profiles[base_profile[1]] # None
                   THEN tc.profiles[base_profile[1]][1]
                   ELSE [gcc_active |-> "null", kernel_active |-> "null"]
       IN TcStep([tc EXCEPT !.profiles[name] =
                    Some([gcc_active |-> IF gcc # None THEN gcc[1] ELSE base.gcc_active,
                          kernel_active |-> base.kernel_active])],
                 NoOp)

\* register_versions, register_cross, snapshot_state(name) under one name,
\* rollback_snapshot of that snapshot (FileNotFoundError without it)
RegisterVersions(pkg_name, version) ==
  TcStep(RegisterVersionsFn(tc, pkg_name, version),
         NoOp)
RegisterCross(triplet) ==
  TcStep([tc EXCEPT !.cross = @ \cup {triplet}],
         NoOp)
SnapshotState ==
  TcStep([tc EXCEPT !.snap = Some(SnapshotOf(tc))],
         NoOp)
RollbackSnapshot ==
  IF tc.snap = None
  THEN TcStep(tc, NoOp)
  ELSE TcStep(RollbackSnapshotFn(tc, tc.snap[1]),
              NoOp)

\* outside the manager: a package puts a regular file where a link may go
PlaceFile(l) ==
  /\ tc.link[l] = "none"
  /\ TcStep([tc EXCEPT !.link[l] = "file"], NoOp)

\* DEFAULT_TOOLCHAIN_ORDER, of the packages of the database: y stands for
\* binutils and x for gcc, which is built twice
ToolchainOrder == <<"y", "x", "x">>

\* the names of an updates list; z is a package outside the default order
UpdateNames(u) ==
  CASE u = "x" -> {"x"} [] u = "xy" -> {"x", "y"} [] u = "z" -> {"z"} [] OTHER -> {}

\* rebuild_toolchain, the loop: build_package, install_package(overwrite,
\* upgrade) and register_versions for each package of the order that is in
\* the updates; the package at position fail_at raises
RECURSIVE RebuildLoop(_, _, _, _, _)
RebuildLoop(st, t, order, i, fail_at) ==
  IF i > Len(order) THEN [st |-> st, t |-> t, ok |-> TRUE]
  ELSE IF i = fail_at THEN [st |-> st, t |-> t, ok |-> FALSE]
  ELSE LET a == BuiltArtifact(order[i])
           r == InstallPackageFn(BuildPackageFn(st, order[i]), a, InstallRoot,
                                 TRUE, TRUE, Len(Members(a)))
       IN IF ~r.ok THEN [st |-> r.st, t |-> t, ok |-> FALSE]
          ELSE RebuildLoop(r.st,
                           RegisterVersionsFn(t, IF order[i] = "x" THEN "gcc"
                                                 ELSE "binutils", Ver(a)[1]),
                           order, i + 1, fail_at)

\* rebuild_toolchain(updates).  verify_ok: verify_toolchain() passes.
RebuildToolchain(u, fail_at, verify_ok) ==
  LET order == SelectSeq(ToolchainOrder, LAMBDA n : n \in UpdateNames(u))
      snap == SnapshotOf(tc)
      r == RebuildLoop(CurDB, tc, order, 1, fail_at)
  IN IF UpdateNames(u) = {}
     THEN /\ tc' = tc
          /\ last' = LastTc("rebuild_toolchain", TRUE, u, "no_updates")
          /\ UNCHANGED <<pkgVars, resVars, logVars, bld, boot>>
     ELSE /\ SetDB(r.st)
          /\ tc' = IF r.ok THEN r.t ELSE RollbackSnapshotFn(r.t, snap)
          /\ last' = LastTc("rebuild_toolchain", r.ok, u,
                            IF ~r.ok THEN "build_failed"
                            ELSE IF verify_ok THEN "none" ELSE "verify_failed")
          /\ UNCHANGED <<snaps, log, clock, resVars, logVars, bld, boot>>

NextToolchain ==
  \/ \E version \in TcVersions, profile \in {None, Some("p")},
        present \in BOOLEAN, valid \in BOOLEAN :
       (present \/ ~valid) /\ SetActive("gcc", version, profile, present, valid)
  \/ \E profile \in {None, Some("p")}, present \in BOOLEAN :
       SetActive("kernel", "1.0", profile, present, TRUE)
  \/ \E name \in ProfNames, fail \in {"none", "gcc", "kernel"} : UseProfile(name, fail)
  \/ \E name \in ProfNames, base_profile \in {None, Some("default")},
        gcc \in {None, Some("1.0")} : CreateProfile(name, base_profile, gcc)
  \/ \E pkg_name \in {"gcc", "kernel", "binutils"} : RegisterVersions(pkg_name, "1.0")
  \/ RegisterCross("t")
  \/ SnapshotState
  \/ RollbackSnapshot
  \/ \E l \in Links : PlaceFile(l)

SpecToolchain == Init /\ [][NextToolchain]_vars

\* rebuild_toolchain, with the compiler switched and the state snapshotted
\* and rolled back in between
NextRebuild ==
  \/ \E u \in {"none", "x", "xy", "z"}, fail_at \in 0..2, verify_ok \in BOOLEAN :
       RebuildToolchain(u, fail_at, verify_ok)
  \/ \E present \in BOOLEAN, valid \in BOOLEAN :
       SetActive("gcc", "1.0", None, present, valid)
  \/ SnapshotState
  \/ RollbackSnapshot

SpecRebuild == Init /\ [][NextRebuild]_vars

(***************************************************************************)
(* The bootstrap worker pool (bootstrap.py)                                *)
(***************************************************************************)
\* res.order of the resolver for the toolchain packages and for the base
\* packages: candidate ids "name-version" in build order, as their segments
\* between dashes.  The toolchain holds x-pass1 (the first pass of x) next
\* to x.
ToolchainIds == <<Base("y1"), <<"x", "pass1", "2.0">>, Base("x2")>>
BaseIds == <<Base("y1"), Base("x2")>>

\* [o.split("-", 1)[0] for o in res.order]
OrderNames(ids) == [i \in 1..Len(ids) |-> Head(ids[i])]

\* bootstrap_toolchain / bootstrap_system up to build_packages_parallel:
\* every element of the list is submitted to the pool
BootStart(ids) ==
  /\ boot.pc = "idle"
  /\ boot' = [boot EXCEPT !.pc = "pool", !.order = OrderNames(ids),
                          !.pend = OrderNames(ids), !.chk0 = boot.chk]
  /\ UNCHANGED <<pkgVars, last, resVars, logVars, bld, tc>>

\* a free thread of the pool takes the next submitted call of _build_worker
WorkerTake(w) ==
  /\ boot.pc = "pool"
  /\ boot.running[w] = "none"
  /\ boot.pend # <<>>
  /\ boot' = [boot EXCEPT !.running[w] = Head(boot.pend), !.pend = Tail(@)]
  /\ UNCHANGED <<pkgVars, last, resVars, logVars, bld, tc>>

\* _build_worker returns: build_package and install_package(overwrite,
\* upgrade) have run, or one of them raised (before the package was
\* written); for a successful build the checkpoint is saved
WorkerDone(w, ok) ==
  /\ boot.running[w] # "none"
  /\ LET n == boot.running[w]
         a == BuiltArtifact(n)
     IN /\ boot' = [boot EXCEPT !.running[w] = "none",
                                !.chk = IF ok THEN @ \cup {n} ELSE @]
        /\ IF ok
           THEN SetDB(InstallPackageFn(BuildPackageFn(CurDB, n), a, InstallRoot,
                                       TRUE, TRUE, Len(Members(a))).st)
           ELSE UNCHANGED <<installed, manifest, fs>>
  /\ UNCHANGED <<snaps, log, clock, last, resVars, logVars, bld, tc>>

\* the pool is drained and build_packages_parallel returns, or the process
\* is stopped before that; the checkpoint directory stays
BootStop ==
  /\ boot.pc = "pool"
  /\ boot' = [boot EXCEPT !.pc = "idle", !.pend = <<>>,
                          !.running = [w \in Workers |-> "none"]]
  /\ UNCHANGED <<pkgVars, last, resVars, logVars, bld, tc>>

NextBoot ==
  \/ \E ids \in {ToolchainIds, BaseIds} : BootStart(ids)
  \/ \E w \in Workers : WorkerTake(w)
  \/ \E w \in Workers, ok \in BOOLEAN : WorkerDone(w, ok)
  \/ BootStop

SpecBoot == Init /\ [][NextBoot]_vars

(***************************************************************************)
(* Claims about the package database and the rollback                      *)
(***************************************************************************)
ManifestFiles(m, n) == IF m[n] = None THEN {} ELSE Range(m[n][1])
RegularFiles(a, dest) ==
  {Path(dest, Members(a)[i].n) : i \in {j \in 1..Len(Members(a)) : Members(a)[j].isfile}}
Complete(a) == Len(Members(a))

\* C1 - Manifest disjointness: no file path is listed in the manifests of two
\* different installed packages.
C1_ManifestDisjoint ==
  \A n1 \in DBNames, n2 \in DBNames :
    (n1 # n2 /\ installed[n1] # None /\ installed[n2] # None)
      => ManifestFiles(manifest, n1) \cap ManifestFiles(manifest, n2) = {}

\* C2 - Install/remove round trip: from every reachable state, a successful
\* install_package(artifact) (overwrite and upgrade left at their default,
\* False) followed by remove_package(name) leaves the installed records and
\* the manifests as they were, and every path of the manifest the install
\* wrote exists afterwards exactly if it existed before.
C2_InstallRemoveRoundTrip ==
  \A a \in ArtifactIds, dest \in Roots :
    LET name == ParseName(Base(a))
        r1 == InstallPackageFn(CurDB, a, dest, FALSE, FALSE, Complete(a))
        r2 == RemovePackageFn(r1.st, name, FALSE)
    IN r1.ok =>
         /\ r2.st.installed = installed
         /\ r2.st.manifest = manifest
         /\ \A p \in ManifestFiles(r1.st.manifest, name) : (p \in r2.st.fs) <=> (p \in fs)

\* C3 - Upgrade correctness: a step that upgrades an installed package from
\* one version to another (install_package with upgrade=True, called directly
\* or by the commit loop of the upgrade path) leaves the installed record at
\* the artifact's version, the manifest listing exactly the regular files of
\* the new artifact, and no file on disk that the old manifest listed and the
\* new artifact does not hold.
UpgradeStep(a, dest) ==
  \/ \E ov \in BOOLEAN :
       InstallPackage(a, dest, ov, TRUE, Complete(a))
         /\ last' = LastInstall(a, dest, ov, TRUE, Complete(a))
  \/ /\ dest = InstallRoot
     /\ \E pkg \in DBNames :
          /\ a = BuiltArtifact(pkg)
          /\ UpgradePackage(pkg, TRUE, FALSE, FALSE, FALSE)
          /\ last' = LastUpgrade(pkg, TRUE, FALSE, FALSE, FALSE)
UpgradePost(a, dest) ==
  LET name == ParseName(Base(a))
  IN /\ installed'[name] # None
     /\ installed'[name][1].version = Ver(a)
     /\ manifest'[name] # None
     /\ ManifestFiles(manifest', name) = RegularFiles(a, dest)
     /\ \A p \in ManifestFiles(manifest, name) : p \notin RegularFiles(a, dest) => p \notin fs'
C3_UpgradeCorrect ==
  [][\A a \in ArtifactIds, dest \in Roots :
       (/\ last'.art = a
        /\ last'.op \in {"install_upgrade", "upgrade_commit"}
        /\ installed[ParseName(Base(a))] # None
        /\ installed[ParseName(Base(a))][1].version # Ver(a)
        /\ UpgradeStep(a, dest))
         => UpgradePost(a, dest)]_vars

\* C3 witness: x was upgraded from 1.0 (installed under T) to 2.0
C3_Witness ==
  /\ last.op = "install_upgrade" /\ last.ok /\ last.art = "x2"
  /\ last.found # None
  /\ last.found[1].version = <<"1.0">>
  /\ last.found[1].install_root = "T"
  /\ installed["x"] # None
  /\ installed["x"][1].version = <<"2.0">>

\* the snapshot rollback_last restores, and its case for package x: the
\* snapshot holds a copy of x's record and x was changed since
RollbackSnap == snaps[log[LastSnapshotIndex(log)].ts][1]
RollbackCommitStep ==
  /\ LastSnapshotIndex(log) # 0
  /\ RollbackLast(TRUE, FALSE, "ok")
  /\ last' = LastRollback(TRUE, FALSE, "ok")
  /\ RollbackSnap.meta["x"] # None

ChosenCands(run) == {run.chosen[i].v : i \in 1..Len(run.chosen)}
NonOptionalDeps(c) ==
  {c.depends[i] : i \in {j \in 1..Len(c.depends) :
                           ~InSeq(FromString(c.depends[j]).name, c.optional)}}
Position(order, id) == CHOOSE i \in 1..Len(order) : order[i] = id
OnceInOrder(order, id) == Cardinality({i \in 1..Len(order) : order[i] = id}) = 1

\* b is the one chosen candidate that satisfies a non-optional dependency of a
DependsOn(run, a, b) ==
  \E d \in NonOptionalDeps(a) :
     /\ Satisfies(b, FromString(d))
     /\ \A c \in ChosenCands(run) : Satisfies(c, FromString(d)) => c = b

\* C6 - Topological order: in every successful result each chosen candidate
\* appears exactly once in order, and when a chosen candidate a has a
\* non-optional dependency fulfilled by another chosen candidate b, b stands
\* before a in order.
C6_TopologicalOrder ==
  lastRun.ok =>
    /\ \A c \in ChosenCands(lastRun) : OnceInOrder(lastRun.order, CandId(c))
    /\ Len(lastRun.order) = Cardinality({CandId(c) : c \in ChosenCands(lastRun)})
    /\ \A a \in ChosenCands(lastRun), b \in ChosenCands(lastRun) :
          (a # b /\ DependsOn(lastRun, a, b)) =>
             Position(lastRun.order, CandId(b)) < Position(lastRun.order, CandId(a))

\* C7 - Provides satisfaction: in every successful result, from the search or
\* from the lockfile, every non-optional dependency of every chosen candidate
\* is satisfied, by name or provides and by version, by a chosen candidate.
C7_ProvidesSatisfied ==
  lastRun.ok =>
    \A c \in ChosenCands(lastRun) : \A d \in NonOptionalDeps(c) :
       \E p \in ChosenCands(lastRun) : Satisfies(p, FromString(d))

\* a result accepted from the lockfile in which a chosen candidate has a
\* non-optional dependency with a version specifier
C7_Witness ==
  /\ lastRun.ok
  /\ lastRun.path = "lock"
  /\ \E c \in ChosenCands(lastRun) : \E d \in NonOptionalDeps(c) :
        FromString(d).specifier # None

ConflictFree(run) ==
  \A a \in ChosenCands(run), b \in ChosenCands(run) :
     a # b => \A i \in 1..Len(a.conflicts) :
                 a.conflicts[i] # b.name /\ ~InSeq(a.conflicts[i], b.provides)

\* the search failed for no other recorded reason than the selections it
\* discarded for a conflict
FailedOnConflict(run) ==
  /\ ~run.ok
  /\ run.path = "search"
  /\ run.conflict
  /\ \A i \in 1..Len(run.issues) :
        run.issues[i][1] \notin {"no_candidate_for", StepLimitMessage}

\* C8 - Conflict freedom: no two chosen candidates of a successful result
\* conflict, by name or by a provided virtual name; and when the selections
\* were discarded for a conflict the failed result carries a conflict issue.
C8_ConflictFreedom ==
  /\ lastRun.ok => ConflictFree(lastRun)
  /\ FailedOnConflict(lastRun) => HasConflictIssue(lastRun.issues)

\* C9 - Lockfile idempotence: after a successful search wrote the lockfile,
\* resolving the same roots again with prefer_locked, against the same
\* repository, yields the same chosen map and the same order.
C9_LockIdempotent ==
  [][(/\ lastRun.ok
      /\ lastRun.path = "search"
      /\ lastRun'.roots = lastRun.roots
      /\ lastRun'.allow = lastRun.allow
      /\ lastRun'.prefer)
     => (/\ lastRun'.ok
         /\ lastRun'.chosen = lastRun.chosen
         /\ lastRun'.order = lastRun.order)]_vars

KahnPart(chosen) ==
  LET nodes == NodeIds(chosen, {})
      deps == DepsMap(chosen)
  IN Kahn(SelectSeq(nodes, LAMBDA n : deps[n] = {}), <<>>, deps, nodes)
HasCycle(chosen) == Len(KahnPart(chosen)) # Len(NodeIds(chosen, {}))

\* C11 - Cycle reporting: when the chosen candidates of a returned selection
\* hold a dependency cycle Kahn's loop cannot order, order is the acyclic
\* part followed by the remaining ids in name order, and issues contains
\* "cycle".
C11_CycleReported ==
  (lastRun.chosen # <<>> /\ HasCycle(lastRun.chosen)) =>
    /\ lastRun.order =
         KahnPart(lastRun.chosen)
         \o SortIds(Range(NodeIds(lastRun.chosen, {})) \ Range(KahnPart(lastRun.chosen)))
    /\ \E i \in 1..Len(lastRun.issues) : lastRun.issues[i] = <<"cycle">>

(***************************************************************************)
(* Claims about failed installs, the upgrade path and the rollback log     *)
(***************************************************************************)
\* C12 - AlreadyInstalled: install_package of an artifact whose package has
\* an installed record, with overwrite=False and upgrade=False, raises
\* FileExistsError and leaves the record, the manifest and the files as they
\* were.
C12_AlreadyInstalled ==
  [][(/\ last'.op = "install"
      /\ ~last'.overwrite
      /\ installed[ParseName(Base(last'.art))] # None)
     => (/\ ~last'.ok
         /\ last'.err = "FileExistsError"
         /\ UNCHANGED <<installed, manifest, fs>>)]_vars

\* a plain install that met an installed record and was refused
C12_Witness ==
  /\ last.op = "install"
  /\ ~last.overwrite
  /\ last.found # None
  /\ last.err = "FileExistsError"
  /\ installed[ParseName(Base(last.art))] = last.found

\* C13 - Rollback-safe extraction: when install_package fails part-way
\* through the extraction, no file the call extracted is left on disk, and
\* the call writes neither a manifest nor an installed record.
C13_ExtractionRolledBack ==
  [][(last'.op \in {"install", "install_upgrade"} /\ last'.err = "extract")
     => (/\ fs' \subseteq fs
         /\ \A n \in DBNames :
               /\ installed'[n] \in {installed[n], None}
               /\ manifest'[n] \in {manifest[n], None})]_vars

RECURSIVE BuildPackagesInOrder(_, _)
BuildPackagesInOrder(st, order) ==
  IF order = <<>> THEN st
  ELSE BuildPackagesInOrder(BuildPackageFn(st, Head(order)), Tail(order))

\* the transactions the commit loop is given: one package, or a package and
\* the dependency built before it
Transactions == {<<"x">>, <<"y", "x">>}
AtNewVersion(st, pkg) ==
  /\ st.installed[pkg] # None
  /\ st.installed[pkg][1].artifact = BuiltArtifact(pkg)
  /\ st.installed[pkg][1].install_root = InstallRoot

C19_SnapshotPrecedesMutation ==
  [][\A n \in DBNames :
       installed'[n] # installed[n] =>
         \E t \in 0..MaxLog :
           /\ snaps'[t] # None
           /\ snaps'[t] # snaps[t]
           /\ n \in Range(snaps'[t][1].packages)
           /\ snaps'[t][1].meta[n] = installed[n]
           /\ snaps'[t][1].man[n] = manifest[n]]_vars

\* C20 - Rollback log append-only and monotonic: whatever the interleaving
\* of the processes that write events, a step never alters or removes a line
\* of rollback.log, and the ts values of the lines never decrease in file
\* order.
C20_LogAppendOnlyMonotonic ==
  [][/\ Len(log') >= Len(log)
     /\ SubSeq(log', 1, Len(log)) = log
     /\ \A i \in 1..(Len(log') - 1) : log'[i].ts <= log'[i + 1].ts]_vars

\* C21 - Single writer per package name: of the install_package calls for
\* one package name that run at the same time, at most one is past the check
\* of the installed record (extracting, or writing the manifest or the
\* record); the others were rejected.
C21_SingleWriter ==
  \A n \in DBNames : \A w1 \in Workers, w2 \in Workers :
    (w1 # w2 /\ Installing(w1, n)) => ~Installing(w2, n)

(***************************************************************************)
(* Orphans (rollback.py)                                                   *)
(***************************************************************************)
\* an entry of the "dependencies" list of a recipe: a string (kind "str",
\* its characters in s), a {name, version} record (kind "dict") or a list
\* of alternatives (kind "list"); form is the entry as written
Dep(kind, s, name, form) == [kind |-> kind, s |-> s, name |-> name, form |-> form]

\* the "dependencies" list of the recipe meta_mod.load_meta(name) reads: the
\* recipe of x requires y at least at version 1, the recipe of y requires
\* nothing
RecipeDependencies ==
  [n \in DBNames |->
     IF n = "x" THEN <<Dep("str", <<"y", ">", "=", "1">>, NoKey, "y>=1")>> ELSE <<>>]

\* s.split(a b)[0]: the part of the string before the first "ab"
RECURSIVE SplitHead(_, _, _)
SplitHead(s, a, b) ==
  IF Len(s) < 2 THEN s
  ELSE IF s[1] = a /\ s[2] = b THEN <<>>
  ELSE <<s[1]>> \o SplitHead(Tail(s), a, b)

\* the name _build_installed_graph takes from an entry: for a string
\* raw.split("==")[0].split(">=")[0].strip() (strings without blanks; what
\* is left is a package name when it is one character long, and a key of no
\* package otherwise), for a record raw.get("name"); any other entry is
\* passed over
DepName(raw) ==
  IF raw.kind = "str"
  THEN LET h == SplitHead(SplitHead(raw.s, "=", "="), ">", "=")
       IN IF Len(h) = 1 THEN h[1] ELSE NoKey
  ELSE IF raw.kind = "dict" THEN raw.name
  ELSE NoKey

\* list_installed(): the names with an installed record, sorted
ListInstalled(st) == SelectSeq(<<"x", "y">>, LAMBDA n : st.installed[n] # None)

\* _build_installed_graph: rev_graph[n], the installed packages whose recipe
\* (deps[m] its "dependencies" list) names n as a dependency
RevGraph(st, n, deps) ==
  {m \in Range(ListInstalled(st)) :
     \E i \in 1..Len(deps[m]) : DepName(deps[m][i]) = n}

\* imeta.get("explicit", False) on an installed record
Explicit(rec) == IF "explicit" \in DOMAIN rec THEN rec.explicit ELSE FALSE

\* orphan_dry_run(): the installed packages that are not explicit and have
\* no installed dependent, in list_installed order
OrphanDryRun(st, deps) ==
  SelectSeq(ListInstalled(st),
            LAMBDA n : ~Explicit(st.installed[n][1]) /\ RevGraph(st, n, deps) = {})

\* C22 - Orphan scenario: with x installed by install_package and requiring
\* y, and y installed as well, orphan_dry_run() returns the empty list, and
\* after remove_package(x) it returns exactly [y].
C22_OrphanScenario ==
  (installed["x"] # None /\ installed["y"] # None)
    => /\ OrphanDryRun(CurDB, RecipeDependencies) = <<>>
       /\ OrphanDryRun(RemovePackageFn(CurDB, "x", FALSE).st, RecipeDependencies)
            = <<"y">>

\* the forms of a dependency of x on y: the bare name, the name with each
\* version operator, a {name, version} record, a list of alternatives
VersionOps ==
  {<<"=", "=">>, <<">", "=">>, <<"<", "=">>, <<">">>, <<"<">>, <<"!", "=">>, <<"~", "=">>}
OpText(op) == IF Len(op) = 1 THEN op[1] ELSE IF op[1] = "=" THEN "==" ELSE
              IF op[1] = ">" THEN ">=" ELSE IF op[1] = "<" THEN "<=" ELSE
              IF op[1] = "!" THEN "!=" ELSE "~="
DepForms ==
  {Dep("str", <<"y">>, NoKey, "bare")}
    \cup {Dep("str", <<"y">> \o op \o <<"1">>, NoKey, OpText(op)) : op \in VersionOps}
    \cup {Dep("dict", <<>>, "y", "record"), Dep("list", <<>>, NoKey, "alternatives")}

\* orphan_dry_run() while the recipe of x lists its dependency on y as raw
OrphanCall(raw) ==
  /\ last' = [NoOp EXCEPT !.op = "orphan_dry_run", !.art = raw.form,
                          !.found = Some(OrphanDryRun(CurDB,
                                      [RecipeDependencies EXCEPT !["x"] = <<raw>>]))]
  /\ UNCHANGED <<pkgVars, resVars, logVars, extVars>>

NextOrphan ==
  \/ \E a \in ArtifactIds, dest \in Roots :
       /\ InstallPackage(a, dest, TRUE, TRUE, Len(Members(a)))
       /\ last' = NoOp
  \/ \E n \in DBNames : RemovePackage(n, FALSE) /\ last' = NoOp
  \/ \E raw \in DepForms : OrphanCall(raw)

SpecOrphan == Init /\ [][NextOrphan]_vars

\* C31 - Orphan detection respects every dependency edge: whatever the form
\* in which the recipe of x lists its dependency on y, orphan_dry_run()
\* returns exactly the installed packages (none is explicit) that no
\* installed package depends on: y is not reported while x is installed.
C31_OrphanEveryEdge ==
  [][last'.op = "orphan_dry_run"
       => last'.found[1] =
            SelectSeq(ListInstalled(CurDB),
                      LAMBDA n : ~(n = "y" /\ installed["x"] # None))]_vars

C26_ActiveProfileExists == tc.profiles[tc.active] # None

\* C26, a state where the claim's case happens: a profile other than the
\* default one is active, and the snapshot at hand was taken under another
\* active profile
C26_Witness ==
  /\ tc.active = "p"
  /\ tc.snap # None
  /\ tc.snap[1].state.active = "default"

\* C27 - set_active restores on failure: a call of set_active that fails
\* leaves the state file and every link as they were before the call, a
\* link that did not exist or was no symlink included.
C27_SetActiveRestores ==
  [][(last'.op = "set_active" /\ ~last'.ok)
       => (TcState(tc') = TcState(tc) /\ tc'.link = tc.link)]_vars

\* C28 - rebuild_toolchain restores on failure: a call where a package
\* fails or the validation fails reports failure and leaves the toolchain
\* state and the links as they were; a call that reports success has
\* installed every package of the updates and passed the validation.
C28_RebuildRestores ==
  [][last'.op = "rebuild_toolchain"
       => /\ last'.err \in {"build_failed", "verify_failed"}
               => /\ ~last'.ok
                  /\ TcState(tc') = TcState(tc)
                  /\ tc'.link = tc.link
          /\ last'.ok
               => /\ last'.err \in {"none", "no_updates"}
                  /\ \A n \in UpdateNames(last'.art) :
                       /\ n \in DBNames
                       /\ installed'[n] # None
                       /\ installed'[n][1].artifact = BuiltArtifact(n)]_vars

(***************************************************************************)
(* Claims about the bootstrap                                              *)
(***************************************************************************)
\* C29 - One build per package in the worker pool: the list handed to
\* build_packages_parallel submits no name more than once, and no two
\* workers build the same name at the same time.
C29_OneBuildPerPackage ==
  /\ \A i \in 1..Len(boot.order), j \in 1..Len(boot.order) :
       i # j => boot.order[i] # boot.order[j]
  /\ \A w1 \in Workers, w2 \in Workers :
       (w1 # w2 /\ boot.running[w1] # "none")
         => boot.running[w1] # boot.running[w2]

\* C30 - Checkpoint restart: a package that had a checkpoint when the
\* bootstrap run began is skipped by the run: no worker builds it.
C30_CheckpointSkip ==
  \A w \in Workers : boot.running[w] \notin boot.chk0

(***************************************************************************)
(* RepoIndex.find_candidates called on its own                             *)
(***************************************************************************)
\* the candidates the repositories of SpecFind are made of: A-1, A-2, and
\* B-2, C-2 and C-1 each providing A
FindPool ==
  << Cand("A", Some("1"), <<>>, <<>>, <<>>, <<>>),
     Cand("A", Some("2"), <<>>, <<>>, <<>>, <<>>),
     Cand("B", Some("2"), <<"A">>, <<>>, <<>>, <<>>),
     Cand("C", Some("2"), <<"A">>, <<>>, <<>>, <<>>),
     Cand("C", Some("1"), <<"A">>, <<>>, <<>>, <<>>) >>

RECURSIVE PickFind(_, _)
PickFind(i, S) ==
  IF i > Len(FindPool) THEN <<>>
  ELSE (IF i \in S THEN <<FindPool[i]>> ELSE <<>>) \o PickFind(i + 1, S)

FindRepos ==
  {PickFind(1, S) : S \in {T \in SUBSET (1..Len(FindPool)) : Cardinality(T) <= MaxRepo}}

InitFind ==
  /\ installed = [n \in DBNames |-> None]
  /\ manifest = [n \in DBNames |-> None]
  /\ fs = {}
  /\ snaps = [t \in 0..MaxLog |-> None]
  /\ log = <<>>
  /\ clock = 0
  /\ last = NoOp
  /\ repo \in FindRepos
  /\ lockData = <<>>
  /\ lastRun = IdleRun
  /\ workers = IdleWorkers
  /\ ExtInit

\* repo.find_candidates(Requirement.from_string(name)), the set of names
\* iterated in the order seed
FindCall(name, seed) ==
  /\ last' = [NoOp EXCEPT !.op = "find_candidates", !.art = name,
                          !.found = Some(FindCandidates(repo, FromString(<<name>>), seed))]
  /\ UNCHANGED <<installed, manifest, fs, snaps, log, clock>>
  /\ UNCHANGED <<resVars, logVars, extVars>>

NextFind == \E name \in PkgNames, seed \in HashOrders : FindCall(name, seed)

SpecFind == InitFind /\ [][NextFind]_vars

\* the order the specification gives: the requested name before a provider,
\* then the higher version, then the smaller name
OrderedBefore(c, d, name) ==
  LET kind(e) == IF e.name = name THEN 0 ELSE 1
      ver(e) == VerNum(e.version[1])
  IN \/ kind(c) < kind(d)
     \/ /\ kind(c) = kind(d)
        /\ \/ ver(c) > ver(d)
           \/ ver(c) = ver(d) /\ NameRank(c.name) < NameRank(d.name)

\* C32 - Candidate ordering: in the list find_candidates returns every
\* candidate of the requested name stands before every candidate that only
\* provides it, within a kind the higher version stands first, and equal
\* versions are ordered by name; the list does not depend on the iteration
\* order of the index.
C32_CandidateOrdering ==
  last.op = "find_candidates"
    => \A i, j \in 1..Len(last.found[1]) :
          i < j => OrderedBefore(last.found[1][i], last.found[1][j], last.art)

(***************************************************************************)
(* Selections a repository admits                                          *)
(***************************************************************************)
\* the chosen dict holding the candidates of the repository at positions S
RECURSIVE SelectionOf(_, _, _)
SelectionOf(rp, i, S) ==
  IF i > Len(rp) THEN <<>>
  ELSE (IF i \in S THEN <<Entry(rp[i].name, rp[i])>> ELSE <<>>) \o SelectionOf(rp, i + 1, S)

\* some selection of the repository, one candidate per name, satisfies every
\* root and every non-optional dependency and holds no conflict
Satisfiable(rp, roots) ==
  \E S \in SUBSET (1..Len(rp)) :
     LET sel == SelectionOf(rp, 1, S)
     IN /\ \A i, j \in S : rp[i].name = rp[j].name => i = j
        /\ \A k \in 1..Len(roots) : ChosenSatisfies(sel, FromString(roots[k]))
        /\ VerifySelection(sel, TRUE) = <<>>

\* C33 - Optional requirements are skipped, not fatal: a search that allows
\* optional dependencies and stays within the step limit succeeds whenever the
\* roots and all non-optional dependencies can be satisfied from the
\* repository, also when an optional dependency of a chosen candidate has no
\* candidate.
C33_OptionalSkipped ==
  (/\ lastRun.path = "search"
   /\ lastRun.allow
   /\ ~StepLimitExceeded(lastRun.steps)
   /\ Satisfiable(repo, lastRun.roots))
    => lastRun.ok

(***************************************************************************)
(* rollback.rollback_pkg_to_version                                        *)
(***************************************************************************)
\* rollback_pkg_to_version(pkg, version, simulate_in_sandbox, commit) with the
\* artifact a = <pkg>-<version>.tar.gz in the cache.  sandbox_ok says whether
\* install_with_fakeroot succeeds in the validation sandbox; when it raises,
\* the error is put in the report and re-raised only if simulate_in_sandbox is
\* false.  Then, with commit, install_package(artifact, install_root,
\* overwrite=True, upgrade=True) runs; its exception is put in the report.
RollbackPkgFn(st, a, simulate_in_sandbox, commit, sandbox_ok, k) ==
  IF ~sandbox_ok /\ ~simulate_in_sandbox
  THEN [st |-> st, commit |-> FALSE, raised |-> TRUE]
  ELSE IF commit
  THEN LET r == InstallPackageFn(st, a, InstallRoot, TRUE, TRUE, k)
       IN [st |-> r.st, commit |-> r.ok, raised |-> FALSE]
  ELSE [st |-> st, commit |-> FALSE, raised |-> FALSE]

\* the call as a step: after a committed install the snapshot
\* rollback_to_<version> is taken and the rollback_pkg event is logged
RollbackPkgToVersion(a, simulate_in_sandbox, commit, sandbox_ok, fail) ==
  LET r == RollbackPkgFn(CurDB, a, simulate_in_sandbox, commit, sandbox_ok, EffK(a, fail))
      pkgs == <<ParseName(Base(a))>>
  IN /\ r.commit => Len(log) + 2 <= MaxLog
     /\ SetDB(r.st)
     /\ IF r.commit
        THEN /\ snaps' = [snaps EXCEPT ![clock] =
                            Some(SnapshotDirFn(snaps, r.st, clock, pkgs, "rollback_to"))]
             /\ log' = log \o <<LogEntry(clock, "snapshot", "rollback_to", pkgs, FALSE),
                                LogEntry(clock, "rollback_pkg", "none", pkgs, TRUE)>>
        ELSE UNCHANGED <<snaps, log>>
     /\ last' = [NoOp EXCEPT !.op = "rollback_pkg", !.art = a, !.ok = r.commit,
                             !.err = IF sandbox_ok THEN "none" ELSE "sandbox_install"]
     /\ UNCHANGED clock
     /\ UNCHANGED <<resVars, logVars, extVars>>

\* the calls of rollback_pkg_to_version: an extraction failure is an input
\* only of the calls that reach install_package
RollbackPkgCalls ==
  {c \in [simulate : BOOLEAN, commit : BOOLEAN, sandbox_ok : BOOLEAN, fail : BOOLEAN] :
     c.fail => (c.commit /\ (c.sandbox_ok \/ c.simulate))}

\* SpecPkgRollback: package x under installs in both roots, remove and
\* rollback_pkg_to_version of either cached version
NextPkgRollback ==
  \/ \E a \in RollbackArtifacts, dest \in Roots :
       InstallPackage(a, dest, TRUE, TRUE, EffK(a, FALSE)) /\ last' = NoOp
  \/ RemovePackage("x", FALSE) /\ last' = NoOp
  \/ \E a \in RollbackArtifacts, c \in RollbackPkgCalls :
       RollbackPkgToVersion(a, c.simulate, c.commit, c.sandbox_ok, c.fail)
  \/ Tick /\ last' = NoOp

SpecPkgRollback == Init /\ [][NextPkgRollback]_vars

LockRootLists ==
  { << <<"A">> >>, << <<"A", "=", "=", "1">> >>, << <<"A", ">", "=", "2">> >> }

\* SpecLock: resolve() run again and again for the root A, the specifier
\* changing from run to run, on a fresh resolver that loads the lockfile
NextLock ==
  \E roots \in LockRootLists, allow \in BOOLEAN, prefer \in BOOLEAN, seed \in HashOrders :
     Resolve(roots, allow, prefer, seed)

SpecLock == InitResolve /\ [][NextLock]_vars

\* C35 - Root requirements hold in every successful result: each root of a
\* run that returned ok=true is satisfied, by name or provides and by version
\* specifier, by some chosen candidate, also when the result comes from the
\* lockfile.
C35_RootsSatisfied ==
  lastRun.ok
    => \A k \in 1..Len(lastRun.roots) :
          \E i \in 1..Len(lastRun.chosen) :
             Satisfies(lastRun.chosen[i].v, FromString(lastRun.roots[k]))

(***************************************************************************)
(* rollback.snapshot_and_upgrade                                           *)
(***************************************************************************)
\* upgrade_package raises UpgradeError when the resolution is asked for or
\* when the commit loop lists a failed package
UpgradeRaises(commit, resolve_deps, dry_run, fail) ==
  resolve_deps \/ (commit /\ ~dry_run /\ fail)

\* snapshot_and_upgrade(pkgs, opts): the snapshot pre_upgrade, then
\* upgrade_package(pkgs[0], **opts), then on success the snapshot post_upgrade
\* and the upgrade_op event, on an exception the upgrade_op event and the
\* snapshot post_upgrade_failed.  dt is the number of seconds the upgrade
\* takes on the wall clock.
SnapshotAndUpgrade(pkgs, c, dt) ==
  LET raised == UpgradeRaises(c.commit, c.resolve_deps, c.dry_run, c.fail)
      st1 == IF c.resolve_deps THEN CurDB
             ELSE UpgradePackageFn(CurDB, pkgs[1], c.commit, c.dry_run, c.fail)
      now == clock + dt
      postop == IF raised THEN "post_upgrade_failed" ELSE "post_upgrade"
      snaps1 == [snaps EXCEPT ![clock] =
                   Some(SnapshotDirFn(snaps, CurDB, clock, pkgs, "pre_upgrade"))]
      pre == LogEntry(clock, "snapshot", "pre_upgrade", pkgs, FALSE)
      post == LogEntry(now, "snapshot", postop, pkgs, FALSE)
      event == LogEntry(now, "upgrade_op", "none", pkgs, FALSE)
  IN /\ Len(log) < MaxLog
     /\ now <= MaxLog
     /\ SetDB(st1)
     /\ snaps' = [snaps1 EXCEPT ![now] = Some(SnapshotDirFn(snaps1, st1, now, pkgs, postop))]
     /\ log' = log \o (IF raised THEN <<pre, event, post>> ELSE <<pre, post, event>>)
     /\ clock' = now
     /\ last' = [NoOp EXCEPT !.op = "snapshot_and_upgrade", !.art = pkgs[1],
                             !.ok = ~raised, !.found = installed[pkgs[1]],
                             !.err = IF raised THEN "UpgradeError" ELSE "none"]
     /\ UNCHANGED <<resVars, logVars, extVars>>

\* SpecSnapUpgrade: package x in the install root under complete installs,
\* remove and snapshot_and_upgrade
NextSnapUpgrade ==
  \/ \E a \in RollbackArtifacts, up \in BOOLEAN :
       InstallPackage(a, InstallRoot, TRUE, up, EffK(a, FALSE)) /\ last' = NoOp
  \/ RemovePackage("x", FALSE) /\ last' = NoOp
  \/ \E pkgs \in SnapshotLists, c \in UpgradeCalls, dt \in {0, 1} :
       SnapshotAndUpgrade(pkgs, c, dt)
  \/ Tick /\ last' = NoOp

SpecSnapUpgrade == Init /\ [][NextSnapUpgrade]_vars

C37_FailedUpgradeKeepsOld ==
  [][(/\ last'.op = "install_upgrade"
      /\ last'.err = "extract"
      /\ installed[ParseName(Base(last'.art))] # None)
       => LET name == ParseName(Base(last'.art))
          IN /\ installed'[name] = installed[name]
             /\ manifest'[name] = manifest[name]
             /\ manifest[name] # None => Range(manifest[name][1]) \cap fs \subseteq fs']_vars

(***************************************************************************)
(* Installing the artifacts of recipes with and without a hyphen           *)
(***************************************************************************)
\* SpecNames: install_package of the built artifacts of x, y, x-y and y-x in
\* the install root, and remove_package
NextNames ==
  \/ \E a \in ArtifactIds \cup HyphenArtifactIds, up \in BOOLEAN :
       InstallPackage(a, InstallRoot, TRUE, up, EffK(a, FALSE))
       /\ last' = LastInstall(a, InstallRoot, TRUE, up, EffK(a, FALSE))
  \/ \E n \in DBNames : RemovePackage(n, FALSE) /\ last' = LastRemove(n, FALSE)

SpecNames == Init /\ [][NextNames]_vars

\* C38 - Package identity survives the artifact name: every installed record
\* carries the name and the version of the recipe its artifact was built
\* from, also when the recipe name holds a hyphen.
C38_IdentitySurvives ==
  \A n \in DBNames :
     installed[n] # None
       => /\ <<installed[n][1].name>> = Pkg(installed[n][1].artifact)
          /\ installed[n][1].version = Ver(installed[n][1].artifact)

\* C39 - Snapshots are never overwritten: a call of snapshot_before_operation
\* creates a directory no earlier snapshot has, and leaves the files and the
\* snapshot.json of every earlier snapshot as they were.
C39_SnapshotsDistinct ==
  [][(/\ Len(log') = Len(log) + 1
      /\ log'[Len(log')].type = "snapshot")
       => /\ snaps[log'[Len(log')].ts] = None
          /\ \A t \in 0..MaxLog : snaps[t] # None => snaps'[t] = snaps[t]]_vars

\* the recipe of n lists m among its dependencies
RecipeNeeds(n, m) ==
  /\ n \in DBNames
  /\ \E i \in 1..Len(RecipeDependencies[n]) : DepName(RecipeDependencies[n][i]) = m

\* C40 - Parallel builds respect dependency order: while a worker builds a
\* package, no package it depends on is still being built by another worker
\* or still waiting in the pool.
C40_DependencyOrder ==
  \A w \in Workers :
     /\ \A v \in Workers : ~RecipeNeeds(boot.running[w], boot.running[v])
     /\ \A i \in 1..Len(boot.pend) : ~RecipeNeeds(boot.running[w], boot.pend[i])

====
